---- MODULE Spec2Model ----
(***************************************************************************)
(* Model of the static-analysis adapters of the code review assistant:     *)
(* analyzer_cpp.py (clang-tidy), analyzer_java.py (Checkstyle),            *)
(* analyzer_js.py (ESLint), analyzer_py.py (pylint + radon) and the        *)
(* dispatcher analyze_code of app.py.                                      *)
(*                                                                         *)
(* A Python str is a sequence of one-character strings.  A float is an    *)
(* exact rational [n |-> numerator, d |-> denominator] with d > 0.         *)
(***************************************************************************)
EXTENDS Integers, Sequences, FiniteSets, TLC

(***************************************************************************)
(* Bounds of the model.                                                    *)
(***************************************************************************)
\* number of request slots (threads of the web front end)
NumReq == 2

Reqs == 1..NumReq

(***************************************************************************)
(* Python strings                                                          *)
(***************************************************************************)
NL == "\n"
TAB == "\t"
SP == " "

\* \s of the re module, restricted to the characters the sample sources use
IsSpace(c) == c \in {SP, TAB, NL}

\* \w of the re module, restricted to the characters the sample sources use
IsWordChar(c) ==
    c \in {"a", "b", "c", "d", "e", "f", "h", "i", "l", "m", "n", "o", "p",
           "r", "s", "t", "u", "w", "x", "A", "0", "1", "_"}

\* the characters a token of a sample source stands for
Chars(t) ==
    CASE t = "if" -> <<"i", "f">>
      [] t = "else" -> <<"e", "l", "s", "e">>
      [] t = "int" -> <<"i", "n", "t">>
      [] t = "main" -> <<"m", "a", "i", "n">>
      [] t = "return" -> <<"r", "e", "t", "u", "r", "n">>
      [] t = "while" -> <<"w", "h", "i", "l", "e">>
      [] t = "for" -> <<"f", "o", "r">>
      [] t = "public" -> <<"p", "u", "b", "l", "i", "c">>
      [] t = "class" -> <<"c", "l", "a", "s", "s">>
      [] t = "#include" -> <<"#", "i", "n", "c", "l", "u", "d", "e">>
      [] t = "<iostream>" -> <<"<", "i", "o", "s", "t", "r", "e", "a", "m", ">">>
      [] t = "&&" -> <<"&", "&">>
      [] t = "||" -> <<"|", "|">>
      [] t = "//" -> <<"/", "/">>
      [] t = "try" -> <<"t", "r", "y">>
      [] t = "catch" -> <<"c", "a", "t", "c", "h">>
      [] t = "finally" -> <<"f", "i", "n", "a", "l", "l", "y">>
      [] t = "package" -> <<"p", "a", "c", "k", "a", "g", "e">>
      [] t = "import" -> <<"i", "m", "p", "o", "r", "t">>
      [] t = "private" -> <<"p", "r", "i", "v", "a", "t", "e">>
      [] t = "/*" -> <<"/", "*">>
      [] t = "*/" -> <<"*", "/">>
      [] t = "LONG" -> [i \in 1..121 |-> "a"]
      [] OTHER -> <<t>>

RECURSIVE Text(_)
\* the str written as a sequence of tokens
Text(toks) == IF toks = <<>> THEN <<>> ELSE Chars(Head(toks)) \o Text(Tail(toks))

\* s[i:] and s[:i] with Python's 0-based positions
From(s, i) == SubSeq(s, i + 1, Len(s))
UpTo(s, i) == SubSeq(s, 1, i)

\* s.startswith(p)
StartsWith(s, p) == Len(p) <= Len(s) /\ SubSeq(s, 1, Len(p)) = p

\* s.endswith(p)
EndsWith(s, p) == Len(p) <= Len(s) /\ SubSeq(s, Len(s) - Len(p) + 1, Len(s)) = p

\* p in s
Contains(s, p) == \E i \in 0..(Len(s) - Len(p)) : SubSeq(s, i + 1, i + Len(p)) = p

\* s.strip()
Strip(s) ==
    LET keep == {i \in 1..Len(s) : ~IsSpace(s[i])}
    IN IF keep = {} THEN <<>>
       ELSE SubSeq(s, CHOOSE i \in keep : \A j \in keep : i <= j,
                      CHOOSE i \in keep : \A j \in keep : i >= j)

RECURSIVE SplitLines(_)
\* s.split('\n'): always at least one element
SplitLines(s) ==
    IF \E i \in 1..Len(s) : s[i] = NL
    THEN LET i == CHOOSE j \in 1..Len(s) : s[j] = NL /\ \A k \in 1..(j - 1) : s[k] # NL
         IN <<UpTo(s, i - 1)>> \o SplitLines(From(s, i))
    ELSE <<s>>

(***************************************************************************)
(* Python floats as exact rationals                                        *)
(***************************************************************************)
Rat(n, d) == [n |-> n, d |-> d]
Float(i) == Rat(i, 1)
RLe(a, b) == a.n * b.d <= b.n * a.d
REq(a, b) == a.n * b.d = b.n * a.d
RAdd(a, b) == Rat(a.n * b.d + b.n * a.d, a.d * b.d)
RSub(a, b) == Rat(a.n * b.d - b.n * a.d, a.d * b.d)
RMul(a, b) == Rat(a.n * b.n, a.d * b.d)
RMin(a, b) == IF RLe(a, b) THEN a ELSE b
RMax(a, b) == IF RLe(a, b) THEN b ELSE a
\* max(lo, min(hi, x))
Clamp(lo, hi, x) == RMax(lo, RMin(hi, x))

(***************************************************************************)
(* The regular expressions of the heuristic estimators.  A position i is   *)
(* the number of characters before it, as in Python.                       *)
(***************************************************************************)
\* the only upper-case letter of the sample sources, folded as re.IGNORECASE does
Lower(c) == IF c = "A" THEN "a" ELSE c

\* \b at position i of s
Boundary(s, i) ==
    (i > 0 /\ IsWordChar(s[i])) # (i < Len(s) /\ IsWordChar(s[i + 1]))

\* the least element of a non-empty set of integers
Min(S) == CHOOSE x \in S : \A y \in S : x <= y

\* the end of the longest run of \s starting at i
SkipSpace(s, i) == Min({j \in i..Len(s) : j = Len(s) \/ ~IsSpace(s[j + 1])})

\* the end of the longest run of \w starting at i
SkipWord(s, i) == Min({j \in i..Len(s) : j = Len(s) \/ ~IsWordChar(s[j + 1])})

\* pattern elements: \b, one literal character, \s*, \s+, \w+
B == [k |-> "b", c |-> ""]
Ch(c) == [k |-> "ch", c |-> c]
Ws0 == [k |-> "s*", c |-> ""]
Ws1 == [k |-> "s+", c |-> ""]
W1 == [k |-> "w+", c |-> ""]
Lit(chars) == [i \in 1..Len(chars) |-> Ch(chars[i])]

RECURSIVE MatchEnd(_, _, _, _)
\* re.match of the pattern at position i: the end of the match, or -1.
\* None of the patterns below needs backtracking: what follows a \s* or a
\* \w+ never starts with a character the run could give back.
MatchEnd(s, i, pat, icase) ==
    IF pat = <<>> THEN i
    ELSE LET e == Head(pat)
             rest == Tail(pat)
         IN CASE e.k = "b" -> IF Boundary(s, i) THEN MatchEnd(s, i, rest, icase) ELSE -1
              [] e.k = "ch" ->
                    IF i < Len(s)
                       /\ (IF icase THEN Lower(s[i + 1]) = Lower(e.c) ELSE s[i + 1] = e.c)
                    THEN MatchEnd(s, i + 1, rest, icase) ELSE -1
              [] e.k = "s*" -> MatchEnd(s, SkipSpace(s, i), rest, icase)
              [] e.k = "s+" ->
                    IF SkipSpace(s, i) > i THEN MatchEnd(s, SkipSpace(s, i), rest, icase) ELSE -1
              [] e.k = "w+" ->
                    IF SkipWord(s, i) > i THEN MatchEnd(s, SkipWord(s, i), rest, icase) ELSE -1

RECURSIVE CountFrom(_, _, _, _)
\* the matches re.findall finds from position i on: the leftmost match, then
\* the matches after its end
CountFrom(s, i, pat, icase) ==
    LET starts == {j \in i..Len(s) : MatchEnd(s, j, pat, icase) >= 0}
    IN IF starts = {} THEN 0
       ELSE LET j == Min(starts)
                e == MatchEnd(s, j, pat, icase)
            IN 1 + CountFrom(s, IF e > j THEN e ELSE j + 1, pat, icase)

\* len(re.findall(pat, s)): non-overlapping matches, leftmost first
FindAllCount(s, pat, icase) == CountFrom(s, 0, pat, icase)

\* r'\bword\s*\('
WordParen(word) == <<B>> \o Lit(word) \o <<Ws0, Ch("(")>>

(***************************************************************************)
(* analyzer_cpp.py: the heuristic estimators                               *)
(***************************************************************************)
\* the list `patterns` of _estimate_complexity_from_code, in its order
CppPatterns ==
    << WordParen(<<"i", "f">>),
       <<B>> \o Lit(<<"e", "l", "s", "e">>) \o <<Ws1>> \o Lit(<<"i", "f">>) \o <<Ws0, Ch("(")>>,
       WordParen(<<"w", "h", "i", "l", "e">>),
       WordParen(<<"f", "o", "r">>),
       <<B>> \o Lit(<<"d", "o">>) \o <<Ws0, Ch("{")>>,
       WordParen(<<"s", "w", "i", "t", "c", "h">>),
       <<B>> \o Lit(<<"c", "a", "s", "e">>) \o <<Ws1>>,
       WordParen(<<"c", "a", "t", "c", "h">>),
       <<B, Ch("?"), Ws0>>,
       Lit(<<"|", "|">>),
       Lit(<<"&", "&">>) >>

RECURSIVE SumCounts(_, _, _)
SumCounts(code, pats, icase) ==
    IF pats = <<>> THEN 0
    ELSE FindAllCount(code, Head(pats), icase) + SumCounts(code, Tail(pats), icase)

\* a faulty variant of EstimateComplexityFromCode without the base complexity
EstimateComplexityNoBase(code) == Float(SumCounts(code, CppPatterns, TRUE))

\* CppAnalyzer._estimate_complexity_from_code
EstimateComplexityFromCode(code) == Float(1 + SumCounts(code, CppPatterns, TRUE))

RECURSIVE NonBlankStripped(_)
\* [line.strip() for line in lines if line.strip()]
NonBlankStripped(lines) ==
    IF lines = <<>> THEN <<>>
    ELSE (IF Strip(Head(lines)) # <<>> THEN <<Strip(Head(lines))>> ELSE <<>>)
         \o NonBlankStripped(Tail(lines))

\* the line-length limit of the estimators and of the basic Java scan
MaxLineLength == 120

\* line.startswith('//') or line.startswith('/*')
IsCommentLine(l) == StartsWith(l, <<"/", "/">>) \/ StartsWith(l, <<"/", "*">>)

\* len(line) > 120
IsLongLine(l) == Len(l) > MaxLineLength

\* the result of _estimate_maintainability_index from its counts
MaintainabilityFrom(total_lines, comment_lines, long_lines, complexity) ==
    LET comment_ratio == Rat(comment_lines, total_lines)
        long_line_ratio == Rat(long_lines, total_lines)
        m1 == RSub(Float(100), RMul(complexity, Float(2)))
        m2 == RSub(m1, RMul(long_line_ratio, Float(20)))
        m3 == RAdd(m2, RMul(comment_ratio, Float(10)))
    IN IF total_lines = 0 THEN Float(100)
       ELSE Clamp(Float(0), Float(100), m3)

\* the counts of _estimate_maintainability_index over the stripped non-blank lines
MaintainabilityOfLines(lines, complexity) ==
    MaintainabilityFrom(Len(lines), Cardinality({i \in 1..Len(lines) : IsCommentLine(lines[i])}),
                        Cardinality({i \in 1..Len(lines) : IsLongLine(lines[i])}),
                        complexity)

\* CppAnalyzer._estimate_maintainability_index
EstimateMaintainabilityIndex(code, complexity) ==
    MaintainabilityOfLines(NonBlankStripped(SplitLines(code)), complexity)

(***************************************************************************)
(* analyzer_java.py: the metrics of _calculate_complexity_metrics          *)
(***************************************************************************)
\* a line matches r'\?.*:' once at most: `.*` is greedy and stops at the
\* end of the line, so the first `?` that has a `:` after it takes the rest
HasTernary(line) ==
    \E i \in 1..Len(line) : line[i] = "?" /\ \E j \in (i + 1)..Len(line) : line[j] = ":"

\* len(re.findall(r'\?.*:', code))
TernaryLines(lines) == Cardinality({i \in 1..Len(lines) : HasTernary(lines[i])})
TernaryCount(code) == TernaryLines(SplitLines(code))

\* the alternatives of (public|private|protected|static) the sample sources use
Modifiers ==
    { <<"p", "u", "b", "l", "i", "c">>, <<"s", "t", "a", "t", "i", "c">> }

\* the end of the match of r'\b\w+\s*\([^)]*\)\s*{' at position j, or -1
MethodTailEnd(s, j) ==
    LET afterName == MatchEnd(s, j, <<B, W1, Ws0, Ch("(")>>, FALSE)
    IN IF afterName < 0 THEN -1
       ELSE LET closes == {k \in (afterName + 1)..Len(s) : s[k] = ")"}
            IN IF closes = {} THEN -1
               ELSE MatchEnd(s, Min(closes), <<Ws0, Ch("{")>>, FALSE)

\* the end of the match of the method pattern at position i, or -1:
\* r'\b(public|private|protected|static).*?\b\w+\s*\([^)]*\)\s*{'
MethodMatchEnd(s, i) ==
    LET heads == {MatchEnd(s, i, <<B>> \o Lit(m), FALSE) : m \in Modifiers} \ {-1}
    IN IF heads = {} THEN -1
       ELSE LET h == CHOOSE x \in heads : TRUE
                \* `.*?` takes the fewest characters of the line that let the rest match
                lineEnd == Min({e \in h..Len(s) : e = Len(s) \/ s[e + 1] = NL})
                js == {j \in h..lineEnd : MethodTailEnd(s, j) >= 0}
            IN IF js = {} THEN -1 ELSE MethodTailEnd(s, Min(js))

RECURSIVE MethodCountFrom(_, _)
MethodCountFrom(s, i) ==
    LET starts == {j \in i..Len(s) : MethodMatchEnd(s, j) >= 0}
    IN IF starts = {} THEN 0 ELSE 1 + MethodCountFrom(s, MethodMatchEnd(s, Min(starts)))

RECURSIVE CommentCountFrom(_, _)
\* len(re.findall(r'//.*|/\*.*?\*/', code, re.DOTALL)) from position i: with
\* DOTALL the first alternative runs to the end of the text
CommentCountFrom(s, i) ==
    LET Closes(j) == {k \in (j + 2)..(Len(s) - 2) : s[k + 1] = "*" /\ s[k + 2] = "/"}
        starts == {j \in i..(Len(s) - 2) :
                     /\ s[j + 1] = "/"
                     /\ \/ s[j + 2] = "/"
                        \/ s[j + 2] = "*" /\ Closes(j) # {}}
    IN IF starts = {} THEN 0
       ELSE LET j == Min(starts)
            IN IF s[j + 2] = "/" THEN 1
               ELSE 1 + CommentCountFrom(s, Min(Closes(j)) + 2)

\* the two results of _calculate_complexity_metrics from its counts
MetricsFrom(complexity_score, loc, methods, comments) ==
    LET avg_complexity_per_method ==
            Rat(complexity_score, IF methods > 1 THEN methods ELSE 1)
        comment_ratio == Rat(comments, loc)
        m1 == RSub(RSub(Float(100), RMul(avg_complexity_per_method, Float(5))), Rat(loc, 20))
        m2 == RAdd(m1, RMul(comment_ratio, Float(10)))
    IN << Float(complexity_score),
          IF loc > 0 THEN Clamp(Float(0), Float(100), m2) ELSE Float(100) >>

\* the line counts as a line of code: not blank, not a // comment
IsCodeLine(l) == Strip(l) # <<>> /\ ~StartsWith(Strip(l), <<"/", "/">>)

\* lines_of_code of _calculate_complexity_metrics
CodeLines(lines) == Cardinality({i \in 1..Len(lines) : IsCodeLine(lines[i])})

\* complexity_score of _calculate_complexity_metrics
ComplexityScore(code) ==
    1 + FindAllCount(code, WordParen(<<"i", "f">>), FALSE)
      + FindAllCount(code, WordParen(<<"w", "h", "i", "l", "e">>), FALSE)
      + FindAllCount(code, WordParen(<<"f", "o", "r">>), FALSE)
      + FindAllCount(code, WordParen(<<"s", "w", "i", "t", "c", "h">>), FALSE) * 2
      + FindAllCount(code, WordParen(<<"c", "a", "t", "c", "h">>), FALSE)
      + TernaryCount(code)

\* JavaAnalyzer._calculate_complexity_metrics: <<complexity, maintainability>>
CalculateComplexityMetrics(code) ==
    MetricsFrom(ComplexityScore(code), CodeLines(SplitLines(code)),
                MethodCountFrom(code, 0), CommentCountFrom(code, 0))

(***************************************************************************)
(* The submitted sources the model draws from.                             *)
(***************************************************************************)
CodeNames == {"empty", "blank", "cpp_if", "branchy", "java_cls", "long_line"}

\* the text of a submitted source
Source(name) ==
    CASE name = "empty" -> <<>>
      [] name = "blank" -> <<SP, NL>>
      [] name = "cpp_if" ->
            Text(<<"#include", SP, "<iostream>", NL,
                   "int", SP, "main", "(", ")", "{", SP, "if", "(", "1", ")", "{", "}", SP,
                   "return", SP, "0", ";", SP, "}">>)
      [] name = "branchy" ->
            Text(<<"if", "(", "a", "&&", "b", ")", "{", "}", NL,
                   "else", SP, "if", "(", "a", ")", "{", SP, "x", SP, "=", SP, "a", "?", SP,
                   "1", SP, ":", SP, "0", ";", SP, "}">>)
      [] name = "java_cls" ->
            Text(<<"public", SP, "class", SP, "A", SP, "{", NL,
                   TAB, "public", SP, "int", SP, "f", "(", ")", SP, "{", NL,
                   TAB, TAB, "if", SP, "(", "a", ")", ";", NL,
                   TAB, TAB, "//", SP, "c", NL,
                   TAB, "}", NL,
                   "}">>)
      [] name = "long_line" ->
            Text(<<"//", SP, "c", NL, "x", SP, "=", SP, "LONG", ";", NL,
                   "x", SP, "=", SP, "0">>)

\* not code.strip()
IsBlank(code) == Strip(code) = <<>>

\* the text of each submitted source, computed once
SourceOf ==
    [empty |-> Source("empty"),
     blank |-> Source("blank"),
     cpp_if |-> Source("cpp_if"),
     branchy |-> Source("branchy"),
     java_cls |-> Source("java_cls"),
     long_line |-> Source("long_line")]

(***************************************************************************)
(* Requests, language tags and dispatch                                    *)
(***************************************************************************)
\* the language tags a caller passes
Tags == {"Python", "JavaScript", "TypeScript (React)", "Java", "java", "C++", "C", "Rust"}

\* the languages the front end lists under "Supported Languages"
SupportedUITags == {"Python", "Java", "C++", "C", "JavaScript"}

\* language.lower()
LowerTag(tag) ==
    CASE tag = "Python" -> "python"
      [] tag = "JavaScript" -> "javascript"
      [] tag = "TypeScript (React)" -> "typescript (react)"
      [] tag = "Java" -> "java"
      [] tag = "java" -> "java"
      [] tag = "C++" -> "c++"
      [] tag = "C" -> "c"
      [] tag = "Rust" -> "rust"

\* the entry points that take a language tag
Entries ==
    {"app.analyze_code", "analyzer_java.analyze_code", "analyzer_js.analyze_code",
     "analyzer_py.analyze_code_py"}

\* app.analyze_code: the adapter a tag is dispatched to, "none" when no branch is taken
AppRoute(language) ==
    IF LowerTag(language) = "python" THEN "py"
    ELSE IF LowerTag(language) \in {"javascript", "js", "javascript (react)", "typescript",
                                    "ts", "typescript (react)"} THEN "js"
    ELSE IF LowerTag(language) = "java" THEN "java"
    ELSE IF LowerTag(language) \in {"c++", "cpp"} THEN "cpp"
    ELSE "none"

\* analyzer_java.analyze_code
JavaEntryRoute(language) ==
    IF LowerTag(language) \in {"java"} THEN "java" ELSE "java_unsupported"

\* analyzer_js.analyze_code
JsEntryRoute(language) ==
    IF LowerTag(language) \in {"javascript", "js", "javascript (react)", "typescript", "ts"}
    THEN "js" ELSE "js_unsupported"

\* CodeAnalyzer.analyze_code, reached through analyze_code_py
PyEntryRoute(language) ==
    IF LowerTag(language) = "python" THEN "py" ELSE "none"

Route(entry, language) ==
    CASE entry = "app.analyze_code" -> AppRoute(language)
      [] entry = "analyzer_java.analyze_code" -> JavaEntryRoute(language)
      [] entry = "analyzer_js.analyze_code" -> JsEntryRoute(language)
      [] entry = "analyzer_py.analyze_code_py" -> PyEntryRoute(language)

\* is_cpp_language
IsCppLanguage(language) == LowerTag(language) \in {"c++", "cpp", "c", "cc", "cxx"}

\* the external tools of the backend that serves a language
BackendTools(language) ==
    IF LowerTag(language) = "python" THEN {"pylint", "radon"}
    ELSE IF AppRoute(language) = "js" THEN {"eslint"}
    ELSE IF LowerTag(language) = "java" THEN {"checkstyle"}
    ELSE IF IsCppLanguage(language) THEN {"clang-tidy"}
    ELSE {}

(***************************************************************************)
(* Results                                                                 *)
(***************************************************************************)
ResultKinds == {"CppAnalysisResult", "JavaAnalysisResult", "JSAnalysisResult", "pyAnalysisResult"}

\* a result dataclass; backend_used is CppAnalysisResult.clang_tidy_available
MkResult(kind, language, errors, warnings, total_issues, complexity, maintainability, used) ==
    [kind |-> kind, language |-> language, errors |-> errors, warnings |-> warnings,
     total_issues |-> total_issues, complexity |-> complexity,
     maintainability_index |-> maintainability, backend_used |-> used, exc |-> ""]

Blank(kind, exc) ==
    [kind |-> kind, language |-> "", errors |-> <<>>, warnings |-> <<>>, total_issues |-> 0,
     complexity |-> Float(0), maintainability_index |-> Float(0), backend_used |-> FALSE,
     exc |-> exc]

\* no call in progress or not yet returned
Pending == Blank("pending", "")
\* the call returned None
None == Blank("None", "")
\* the call raised
Raised(exc) == Blank("raise", exc)

\* an issue of the C-family, Java and Python adapters
Issue(line, column, severity, symbol) ==
    [line |-> line, column |-> column, severity |-> severity, symbol |-> symbol]

(***************************************************************************)
(* State                                                                   *)
(***************************************************************************)
VARIABLES
    pc,            \* where each request slot is
    req,           \* the call of each slot: entry point, language tag, source
    env,           \* the tools of the serving backend installed while the call runs
    fs,            \* the temporary directory: path -> file
    local,         \* the locals of the call: errors, warnings, pylint_result, and
                   \* self, the JavaAnalyzer instance it runs in (0: none)
    toolRead,      \* the file contents the analysis tool invocations of the call read
    toolOut,       \* the output of the issue-reporting tool the call parsed last
    toolRuns,      \* the tool invocations of the call, in order, with how each ended
    result,        \* what the call returned or raised
    javaAnalyzer   \* analyzer_java._java_analyzer: 0 is None, else the instance

vars == <<pc, req, env, fs, local, toolRead, toolOut, toolRuns, result, javaAnalyzer>>

\* CppAnalyzer._create_temp_cpp_file: one fixed path in the temporary directory
CppTempPath == <<"temp_code.cpp", 0>>
\* tempfile.NamedTemporaryFile(delete=False): a name no other call holds
UniquePath(kind, r) == <<kind, r>>
\* JavaAnalyzer.config_file of instance i, a NamedTemporaryFile of its own;
\* an instance is numbered by the slot whose call constructs it
ConfigPath(i) == <<"checkstyle_config.xml", i>>

Paths ==
    {CppTempPath}
        \cup {ConfigPath(i) : i \in Reqs}
        \cup {UniquePath(k, r) : k \in {"js", "jsconfig", "java", "py"}, r \in Reqs}

NoFile == [exists |-> FALSE, writer |-> 0, text |-> "empty", scaffold |-> FALSE]
File(r, text, scaffold) == [exists |-> TRUE, writer |-> r, text |-> text, scaffold |-> scaffold]

NoReq == [entry |-> "", language |-> "", code |-> "empty"]
NoLocal == [errors |-> <<>>, warnings |-> <<>>, error |-> "", issues |-> <<>>, self |-> 0]
\* no tool has run in the call
NoOut == [kind |-> "none"]

\* a faulty variant of Unlink that leaves the file in place: the deletion
\* guarantee has to reject it
UnlinkFails(files, path) == files

\* os.unlink(path), os.remove(path)
Unlink(files, path) == [files EXCEPT ![path] = NoFile]

Init ==
    /\ pc = [r \in Reqs |-> "idle"]
    /\ req = [r \in Reqs |-> NoReq]
    /\ env = [r \in Reqs |-> {}]
    /\ fs = [p \in Paths |-> NoFile]
    /\ local = [r \in Reqs |-> NoLocal]
    /\ toolRead = [r \in Reqs |-> <<>>]
    /\ toolOut = [r \in Reqs |-> NoOut]
    /\ toolRuns = [r \in Reqs |-> <<>>]
    /\ result = [r \in Reqs |-> Pending]
    /\ javaAnalyzer = 0

\* the call of slot r starts: its arguments and the tools installed on the host
Enter(r, entry, language, code, tools) ==
    /\ pc[r] = "idle"
    /\ req' = [req EXCEPT ![r] = [entry |-> entry, language |-> language, code |-> code]]
    /\ env' = [env EXCEPT ![r] = tools]

\* subprocess.run of slot r: the tool, the pass of the tool, and how it ended
Ran(r, runs) == toolRuns' = [toolRuns EXCEPT ![r] = toolRuns[r] \o runs]
ToolRun(tool, pass, out) == [tool |-> tool, pass |-> pass, out |-> out]

\* the call of slot r returns `res`
Ret(r, res) ==
    /\ pc' = [pc EXCEPT ![r] = "returned"]
    /\ result' = [result EXCEPT ![r] = res]

(***************************************************************************)
(* Requests in a language no adapter serves                                *)
(***************************************************************************)
\* analyzer_java.analyze_code, else branch
JavaUnsupportedResult(language) ==
    MkResult("JavaAnalysisResult", language, <<>>,
             <<Issue(1, 1, "warning", "NotImplemented")>>, 1, Float(1), Float(75), FALSE)

\* analyzer_js.analyze_code, else branch
JsUnsupportedResult(language) ==
    MkResult("JSAnalysisResult", language, <<>>,
             <<Issue(1, 1, "warning", "unsupported-language")>>, 1, Float(5), Float(50), FALSE)

\* a call with a tag its entry point serves by no adapter
Unsupported(r) ==
    \E entry \in Entries, language \in Tags, code \in CodeNames :
        /\ Route(entry, language) \in {"none", "java_unsupported", "js_unsupported"}
        /\ \E tools \in SUBSET BackendTools(language) : Enter(r, entry, language, code, tools)
        /\ Ret(r, CASE Route(entry, language) = "java_unsupported" -> JavaUnsupportedResult(language)
                    [] Route(entry, language) = "js_unsupported" -> JsUnsupportedResult(language)
                    [] OTHER -> None)
        /\ UNCHANGED <<fs, local, toolRead, toolOut, toolRuns, javaAnalyzer>>

\* the caller takes the outcome; the slot is free again
Return(r) ==
    /\ pc[r] \in {"returned", "raised"}
    /\ pc' = [pc EXCEPT ![r] = "idle"]
    /\ req' = [req EXCEPT ![r] = NoReq]
    /\ env' = [env EXCEPT ![r] = {}]
    /\ local' = [local EXCEPT ![r] = NoLocal]
    /\ toolRead' = [toolRead EXCEPT ![r] = <<>>]
    /\ toolOut' = [toolOut EXCEPT ![r] = NoOut]
    /\ toolRuns' = [toolRuns EXCEPT ![r] = <<>>]
    /\ result' = [result EXCEPT ![r] = Pending]
    /\ UNCHANGED <<fs, javaAnalyzer>>

\* the call of slot r raises `exc`
Raise(r, exc) ==
    /\ pc' = [pc EXCEPT ![r] = "raised"]
    /\ result' = [result EXCEPT ![r] = Raised(exc)]

\* a faulty variant of Goto in which the list of errors is shared by the
\* calls and never cleared: it starts with the errors of a call that is over
GotoShared(r, label, errors, warnings, reads) ==
    LET over == {q \in Reqs \ {r} : pc[q] = "returned"}
        carried == IF over = {} THEN <<>> ELSE result[CHOOSE q \in over : TRUE].errors
    IN /\ pc' = [pc EXCEPT ![r] = label]
       /\ local' = [local EXCEPT ![r].errors = carried \o errors, ![r].warnings = warnings]
       /\ toolRead' = [toolRead EXCEPT ![r] = toolRead[r] \o reads]

\* pc, local and toolRead of slot r after a step that does not end the call
Goto(r, label, errors, warnings, reads) ==
    /\ pc' = [pc EXCEPT ![r] = label]
    /\ local' = [local EXCEPT ![r].errors = errors, ![r].warnings = warnings]
    /\ toolRead' = [toolRead EXCEPT ![r] = toolRead[r] \o reads]

(***************************************************************************)
(* analyzer_cpp.py                                                         *)
(***************************************************************************)
\* one line of clang-tidy's text output: its severity word and whether it
\* ends in a [check-name]
ClangLine(severity, bracket) ==
    [line |-> 3, column |-> 5, severity |-> severity, check |-> "misc-check", bracket |-> bracket]

\* one diagnostic of clang-tidy's YAML output
ClangDiag(level) == [Level |-> level, DiagnosticName |-> "misc-check", FileOffset |-> 7]

\* what one run of clang-tidy can end in: subprocess.TimeoutExpired, another
\* subprocess.SubprocessError, text output, or a YAML document
ClangOutcomes ==
    { [kind |-> "timeout", lines |-> <<>>, diags |-> <<>>],
      [kind |-> "error", lines |-> <<>>, diags |-> <<>>] }
    \cup { [kind |-> "text", lines |-> ls, diags |-> <<>>] :
             ls \in { <<>>,
                      <<ClangLine("warning", TRUE)>>,
                      <<ClangLine("error", TRUE)>>,
                      <<ClangLine("note", TRUE)>>,
                      <<ClangLine("warning", FALSE)>>,
                      <<ClangLine("error", TRUE), ClangLine("note", TRUE),
                        [ClangLine("warning", TRUE) EXCEPT !.line = 9],
                        [ClangLine("warning", TRUE) EXCEPT !.line = 6]>> } }
    \cup { [kind |-> "yaml", lines |-> <<>>, diags |-> ds] :
             ds \in { <<ClangDiag("Warning")>>,
                      <<ClangDiag("Error"), [ClangDiag("Remark") EXCEPT !.FileOffset = 9],
                        [ClangDiag("Warning") EXCEPT !.FileOffset = 2]>> } }

\* the regular expression of the text parser matches the line
ClangLineMatches(l) == l.bracket /\ l.severity \in {"warning", "error", "note"}

RECURSIVE ClangTextIssues(_, _)
\* the issues the text parser appends to the list of one severity
ClangTextIssues(lines, severity) ==
    IF lines = <<>> THEN <<>>
    ELSE (IF ClangLineMatches(Head(lines)) /\ Head(lines).severity = severity
          THEN <<Issue(Head(lines).line, Head(lines).column, severity, Head(lines).check)>>
          ELSE <<>>) \o ClangTextIssues(Tail(lines), severity)

RECURSIVE ClangYamlIssues(_, _)
\* the issues the YAML parser appends to the list of one severity
ClangYamlIssues(diags, severity) ==
    IF diags = <<>> THEN <<>>
    ELSE LET d == Head(diags)
             sev == IF d.Level \in {"Error", "error"} THEN "error" ELSE "warning"
         IN (IF sev = severity THEN <<Issue(d.FileOffset, 0, sev, d.DiagnosticName)>> ELSE <<>>)
            \o ClangYamlIssues(Tail(diags), severity)

\* CppAnalyzer._parse_clang_tidy_output: <<errors, warnings>>
ParseClangTidyOutput(out, format_type) ==
    LET yaml_errors == IF format_type = "yaml" /\ out.kind = "yaml"
                       THEN ClangYamlIssues(out.diags, "error") ELSE <<>>
        yaml_warnings == IF format_type = "yaml" /\ out.kind = "yaml"
                         THEN ClangYamlIssues(out.diags, "warning") ELSE <<>>
    IN IF yaml_errors = <<>> /\ yaml_warnings = <<>>
       THEN <<ClangTextIssues(out.lines, "error"), ClangTextIssues(out.lines, "warning")>>
       ELSE <<yaml_errors, yaml_warnings>>

\* any('#include' in line for line in code.split('\n')[:10])
HasIncludes(code) ==
    LET lines == SplitLines(code)
    IN \E i \in 1..Len(lines) : i <= 10 /\ Contains(lines[i], Chars("#include"))

\* has_includes of each submitted source, computed once
HasIncludesOf ==
    [empty |-> HasIncludes(SourceOf.empty),
     blank |-> HasIncludes(SourceOf.blank),
     cpp_if |-> HasIncludes(SourceOf.cpp_if),
     branchy |-> HasIncludes(SourceOf.branchy),
     java_cls |-> HasIncludes(SourceOf.java_cls),
     long_line |-> HasIncludes(SourceOf.long_line)]

\* CppAnalyzer._create_temp_cpp_file: the file written for slot r
CppTempFile(r, code) == File(r, code, ~HasIncludesOf[code])

\* the empty check on each submitted source, computed once
IsBlankOf ==
    [empty |-> IsBlank(SourceOf.empty),
     blank |-> IsBlank(SourceOf.blank),
     cpp_if |-> IsBlank(SourceOf.cpp_if),
     branchy |-> IsBlank(SourceOf.branchy),
     java_cls |-> IsBlank(SourceOf.java_cls),
     long_line |-> IsBlank(SourceOf.long_line)]

\* complexity, and maintainability estimated with that complexity
WithMaintainability(code, complexity) ==
    <<complexity, EstimateMaintainabilityIndex(code, complexity)>>

\* the two metrics CppAnalyzer.analyze computes for a submitted source
CppMetrics(name) ==
    WithMaintainability(SourceOf[name], EstimateComplexityFromCode(SourceOf[name]))

\* the metrics of each submitted source, computed once
CppMetricsOf ==
    [empty |-> CppMetrics("empty"),
     blank |-> CppMetrics("blank"),
     cpp_if |-> CppMetrics("cpp_if"),
     branchy |-> CppMetrics("branchy"),
     java_cls |-> CppMetrics("java_cls"),
     long_line |-> CppMetrics("long_line")]

\* analyze_cpp_code up to the creation of the scratch file: the probe of the
\* constructor, the empty check of analyze, _create_temp_cpp_file
CppStart(r, codes) ==
    \E language \in Tags, code \in codes :
        /\ AppRoute(language) = "cpp"
        /\ \E tools \in SUBSET BackendTools(language) :
              Enter(r, "app.analyze_code", language, code, tools)
              /\ IF IsBlankOf[code]
                    THEN /\ Ret(r, MkResult("CppAnalysisResult", language, <<>>, <<>>, 0,
                                           Float(1), Float(100), "clang-tidy" \in tools))
                         /\ UNCHANGED <<fs, local, toolRead>>
                    ELSE /\ fs' = [fs EXCEPT ![CppTempPath] = CppTempFile(r, code)]
                         /\ Goto(r, "cpp_tidy", <<>>, <<>>, <<>>)
                         /\ UNCHANGED result
        /\ UNCHANGED <<javaAnalyzer, toolOut, toolRuns>>

\* the synthetic issues of _run_clang_tidy_analysis
CppTimeoutIssue == Issue(1, 1, "warning", "timeout")
CppFailureIssue == Issue(1, 1, "error", "analysis-error")

\* a faulty variant of AfterTextPass that runs the tool again after a timeout
AfterTextPassRetrying(kind, errors, warnings) ==
    IF kind = "timeout" \/ (kind # "error" /\ errors = <<>> /\ warnings = <<>>)
    THEN "cpp_yaml" ELSE "cpp_finish"

\* where _run_clang_tidy_analysis goes after the first run: to the except
\* clauses when it raised, to the second run when no issue was parsed
AfterTextPass(kind, errors, warnings) ==
    IF kind \in {"timeout", "error"} THEN "cpp_finish"
    ELSE IF errors = <<>> /\ warnings = <<>> THEN "cpp_yaml" ELSE "cpp_finish"

\* _run_clang_tidy_analysis up to the end of the first run of clang-tidy
CppRunTidy(r, outcomes) ==
    /\ pc[r] = "cpp_tidy"
    /\ IF "clang-tidy" \notin env[r]
       THEN Goto(r, "cpp_finish", <<>>, <<>>, <<>>) /\ UNCHANGED <<toolOut, toolRuns>>
       ELSE \E out \in outcomes :
              LET reads == <<fs[CppTempPath]>>
                  parsed == ParseClangTidyOutput(out, "text")
              IN /\ toolOut' = [toolOut EXCEPT ![r] = out]
                 /\ Ran(r, <<ToolRun("clang-tidy", "text", out)>>)
                 /\ CASE out.kind = "timeout" ->
                           Goto(r, AfterTextPass(out.kind, <<>>, <<>>),
                                <<>>, <<CppTimeoutIssue>>, reads)
                      [] out.kind = "error" ->
                           Goto(r, AfterTextPass(out.kind, <<>>, <<>>),
                                <<CppFailureIssue>>, <<>>, reads)
                      [] OTHER ->
                           Goto(r, AfterTextPass(out.kind, parsed[1], parsed[2]),
                                parsed[1], parsed[2], reads)
    /\ UNCHANGED <<req, env, fs, result, javaAnalyzer>>

\* the second run of clang-tidy, made when the first gave no issue: every
\* subprocess.SubprocessError, TimeoutExpired among them, is passed over
CppRunYaml(r, outcomes) ==
    /\ pc[r] = "cpp_yaml"
    /\ \E out \in outcomes :
          LET reads == <<fs[CppTempPath]>>
              parsed == ParseClangTidyOutput(out, "yaml")
          IN /\ Ran(r, <<ToolRun("clang-tidy", "yaml", out)>>)
             /\ IF out.kind \in {"timeout", "error"}
                THEN Goto(r, "cpp_finish", <<>>, <<>>, reads) /\ UNCHANGED toolOut
                ELSE /\ Goto(r, "cpp_finish", parsed[1], parsed[2], reads)
                     /\ toolOut' = [toolOut EXCEPT ![r] = out]
    /\ UNCHANGED <<req, env, fs, result, javaAnalyzer>>

\* CppAnalyzer.analyze after the tool: the metrics, the result, and
\* _cleanup_temp_file in the finally clause
CppFinish(r) ==
    /\ pc[r] = "cpp_finish"
    /\ LET complexity == CppMetricsOf[req[r].code][1]
           maintainability == CppMetricsOf[req[r].code][2]
       IN Ret(r, MkResult("CppAnalysisResult", req[r].language, local[r].errors,
                          local[r].warnings, Len(local[r].errors) + Len(local[r].warnings),
                          complexity, maintainability, "clang-tidy" \in env[r]))
    /\ fs' = Unlink(fs, CppTempPath)
    /\ UNCHANGED <<req, env, local, toolRead, toolOut, toolRuns, javaAnalyzer>>

(***************************************************************************)
(* analyzer_java.py                                                        *)
(***************************************************************************)
\* line.startswith(prefixes) and line.endswith(suffixes) with a tuple
StartsWithAny(line, prefixes) == \E p \in prefixes : StartsWith(line, p)
EndsWithAny(line, suffixes) == \E p \in suffixes : EndsWith(line, p)

\* re.match(r'^\s*(//|/\*|\*|\*/)', line)
LooksLikeComment(line) ==
    LET i == SkipSpace(line, 0)
    IN i < Len(line)
       /\ (line[i + 1] = "*" \/ (i + 2 <= Len(line) /\ line[i + 1] = "/" /\ line[i + 2] \in {"/", "*"}))

\* the error _basic_java_analysis appends for line number i, if any
BasicLineErrors(i, line) ==
    IF EndsWith(line, <<";">>)
       /\ StartsWithAny(line, {Chars("if"), Chars("while"), Chars("for")})
    THEN <<Issue(i, 1, "error", "ControlStatementSemicolon")>> ELSE <<>>

\* the warnings _basic_java_analysis appends for line number i, in its order
BasicLineWarnings(i, line) ==
    (IF /\ ~EndsWithAny(line, {<<";">>, <<"{">>, <<"}">>, <<")">>, Chars("//"), Chars("*/")})
        /\ ~StartsWithAny(line, {<<"@">>, Chars("package"), Chars("import"),
                                 Chars("public") \o <<SP>> \o Chars("class"),
                                 Chars("private") \o <<SP>> \o Chars("class"), Chars("class")})
        /\ ~\E kw \in {"if", "else", "while", "for", "try", "catch", "finally"} :
               Contains(line, Chars(kw))
        /\ ~LooksLikeComment(line)
     THEN <<Issue(i, Len(line), "warning", "MissingSemicolon")>> ELSE <<>>)
    \o (IF Len(line) > MaxLineLength
        THEN <<Issue(i, MaxLineLength, "warning", "LineLength")>> ELSE <<>>)
    \o (IF Contains(line, <<TAB>>)
        THEN <<Issue(i, (CHOOSE k \in 1..Len(line) :
                            line[k] = TAB /\ \A k2 \in 1..(k - 1) : line[k2] # TAB),
                     "warning", "TabCharacter")>>
        ELSE <<>>)

\* the stripped line is scanned: not empty, not the start of a comment
BasicLineScanned(line) ==
    line # <<>> /\ ~StartsWith(line, Chars("//")) /\ ~StartsWith(line, Chars("/*"))

RECURSIVE BasicScan(_, _, _)
\* the issues of one severity of lines i.. of the text, in line order
BasicScan(lines, i, severity) ==
    IF i > Len(lines) THEN <<>>
    ELSE LET line == Strip(lines[i])
         IN (IF ~BasicLineScanned(line) THEN <<>>
             ELSE IF severity = "error" THEN BasicLineErrors(i, line)
             ELSE BasicLineWarnings(i, line))
            \o BasicScan(lines, i + 1, severity)

\* a faulty variant of BasicResult that counts the errors only: the
\* invariant of total_issues has to reject it
BasicResultMiscounted(errors, warnings, metrics) ==
    MkResult("JavaAnalysisResult", "Java", errors, warnings,
             Len(errors), metrics[1], metrics[2], FALSE)

\* the result _basic_java_analysis builds from its lists and metrics
BasicResult(errors, warnings, metrics) ==
    MkResult("JavaAnalysisResult", "Java", errors, warnings,
             Len(errors) + Len(warnings), metrics[1], metrics[2], FALSE)

\* JavaAnalyzer._basic_java_analysis
BasicJavaAnalysis(code) ==
    BasicResult(BasicScan(SplitLines(code), 1, "error"),
                BasicScan(SplitLines(code), 1, "warning"),
                CalculateComplexityMetrics(code))

\* one <error> element of Checkstyle's XML report; `line` is "x" when the
\* attribute is not a number
XmlError(line, severity) ==
    [line |-> line, column |-> "4", severity |-> severity,
     source |-> <<"com", "checks", "LineLength">>]

\* one line of Checkstyle's plain report: its [TAG] and whether the rest has
\* the shape file:line:column: message [Rule]
PlainLine(tag, shaped) == [tag |-> tag, shaped |-> shaped, line |-> 2, column |-> 4, rule |-> "LineLength"]

\* what one run of Checkstyle can end in: TimeoutExpired, FileNotFoundError,
\* an exit code, and for the exit codes 0 and 1 the text of stdout: empty,
\* an XML report, or text ElementTree cannot parse
CheckstyleOutcomes ==
    { [kind |-> k, code |-> 0, elems |-> <<>>, lines |-> <<>>] : k \in {"timeout", "notfound"} }
    \cup { [kind |-> "exit", code |-> 2, elems |-> <<>>, lines |-> <<>>],
           [kind |-> "empty", code |-> 0, elems |-> <<>>, lines |-> <<>>] }
    \cup { [kind |-> "xml", code |-> c, elems |-> es, lines |-> <<>>] :
             c \in {0, 1},
             es \in { <<>>, <<XmlError("2", "error")>>, <<XmlError("2", "info")>>,
                      <<XmlError("2", "warning"), XmlError("3", "ERROR"), XmlError("2", "info")>>,
                      <<XmlError("x", "error")>> } }
    \cup { [kind |-> "unparsable", code |-> 1, elems |-> <<>>, lines |-> ls] :
             ls \in { <<PlainLine("WARN", TRUE)>>,
                      <<PlainLine("ERROR", TRUE), PlainLine("INFO", TRUE), PlainLine("WARN", TRUE)>>,
                      <<PlainLine("WARN", FALSE)>> } }

\* str.lower() on the severity words Checkstyle writes
LowerSeverity(sev) ==
    CASE sev = "ERROR" -> "error"
      [] sev = "WARN" -> "warn"
      [] sev = "INFO" -> "info"
      [] OTHER -> sev

\* int(text) of an attribute: the attributes of the reports are "x" or digits
IntOf(text) ==
    CASE text = "2" -> 2
      [] text = "3" -> 3
      [] text = "4" -> 4
      [] OTHER -> 0

\* int(text) raises ValueError
IntRaises(text) == text \notin {"0", "1", "2", "3", "4"}

\* JavaAnalyzer._extract_rule_name
ExtractRuleName(source) == IF source = <<>> THEN "unknown" ELSE source[Len(source)]

RECURSIVE XmlIssues(_, _)
\* _parse_checkstyle_xml: the issues appended to errors (toErrors) or to warnings
XmlIssues(elems, toErrors) ==
    IF elems = <<>> THEN <<>>
    ELSE LET e == Head(elems)
             isError == LowerSeverity(e.severity) = "error"
         IN (IF isError = toErrors
             THEN <<Issue(IntOf(e.line), IntOf(e.column), e.severity, ExtractRuleName(e.source))>>
             ELSE <<>>) \o XmlIssues(Tail(elems), toErrors)

RECURSIVE PlainIssues(_, _)
\* _parse_checkstyle_text: the issues appended to errors (toErrors) or to warnings
PlainIssues(lines, toErrors) ==
    IF lines = <<>> THEN <<>>
    ELSE LET l == Head(lines)
             isError == LowerSeverity(l.tag) = "error"
         IN (IF l.shaped /\ isError = toErrors
             THEN <<Issue(l.line, l.column, LowerSeverity(l.tag), l.rule)>>
             ELSE <<>>) \o PlainIssues(Tail(lines), toErrors)

\* _basic_java_analysis and _calculate_complexity_metrics of each submitted
\* source, computed once
BasicJavaAnalysisOf ==
    [empty |-> BasicJavaAnalysis(SourceOf.empty),
     blank |-> BasicJavaAnalysis(SourceOf.blank),
     cpp_if |-> BasicJavaAnalysis(SourceOf.cpp_if),
     branchy |-> BasicJavaAnalysis(SourceOf.branchy),
     java_cls |-> BasicJavaAnalysis(SourceOf.java_cls),
     long_line |-> BasicJavaAnalysis(SourceOf.long_line)]
JavaMetricsOf ==
    [empty |-> CalculateComplexityMetrics(SourceOf.empty),
     blank |-> CalculateComplexityMetrics(SourceOf.blank),
     cpp_if |-> CalculateComplexityMetrics(SourceOf.cpp_if),
     branchy |-> CalculateComplexityMetrics(SourceOf.branchy),
     java_cls |-> CalculateComplexityMetrics(SourceOf.java_cls),
     long_line |-> CalculateComplexityMetrics(SourceOf.long_line)]

\* _run_checkstyle_analysis raises: timeout, tool not found, exit code not 0 or 1
CheckstyleRaises(out) == out.kind \in {"timeout", "notfound"} \/ out.code \notin {0, 1}

\* _parse_checkstyle_xml raises: int() of a malformed line or column attribute
ParseCheckstyleRaises(out) ==
    out.kind = "xml" /\ \E i \in 1..Len(out.elems) :
                            IntRaises(out.elems[i].line) \/ IntRaises(out.elems[i].column)

\* _parse_checkstyle_xml: <<errors, warnings>>
ParseCheckstyleXml(out) ==
    IF out.kind = "unparsable"
    THEN <<PlainIssues(out.lines, TRUE), PlainIssues(out.lines, FALSE)>>
    ELSE <<XmlIssues(out.elems, TRUE), XmlIssues(out.elems, FALSE)>>

\* a faulty variant of JavaAnalyzeWith in which every error Checkstyle
\* reports adds to the complexity
JavaAnalyzeWithToolMetrics(code, out) ==
    IF CheckstyleRaises(out) \/ ParseCheckstyleRaises(out)
    THEN BasicJavaAnalysisOf[code]
    ELSE LET parsed == ParseCheckstyleXml(out)
             metrics == JavaMetricsOf[code]
         IN MkResult("JavaAnalysisResult", "Java", parsed[1], parsed[2],
                     Len(parsed[1]) + Len(parsed[2]),
                     RAdd(metrics[1], Float(Len(parsed[1]))), metrics[2], FALSE)

\* the body of the try statement of JavaAnalyzer.analyze and its except clause
JavaAnalyzeWith(code, out) ==
    IF CheckstyleRaises(out) \/ ParseCheckstyleRaises(out)
    THEN BasicJavaAnalysisOf[code]
    ELSE LET parsed == ParseCheckstyleXml(out)
             metrics == JavaMetricsOf[code]
         IN MkResult("JavaAnalysisResult", "Java", parsed[1], parsed[2],
                     Len(parsed[1]) + Len(parsed[2]), metrics[1], metrics[2], FALSE)

\* a faulty variant of JavaCleanup that removes the configuration file of
\* the instance together with the scratch file of the request
JavaCleanupConfig(files, r, self) ==
    Unlink(Unlink(files, UniquePath("java", r)), ConfigPath(self))

\* the finally clause of JavaAnalyzer.analyze, run in the instance `self`
JavaCleanup(files, r, self) == Unlink(files, UniquePath("java", r))

\* a faulty variant of JavaAnalyzeBegin that writes the scratch file before
\* the availability probe
JavaAnalyzeBeginScratchFirst(r, code, tools, files, self) ==
    IF "checkstyle" \notin tools
    THEN /\ Ret(r, BasicJavaAnalysisOf[code])
         /\ fs' = [files EXCEPT ![UniquePath("java", r)] = File(r, code, FALSE)]
         /\ UNCHANGED local
    ELSE /\ fs' = [files EXCEPT ![UniquePath("java", r)] = File(r, code, FALSE)]
         /\ pc' = [pc EXCEPT ![r] = "java_run"]
         /\ local' = [local EXCEPT ![r].self = self]
         /\ UNCHANGED result

\* JavaAnalyzer.analyze of the instance `self` up to the creation of the
\* scratch file: the availability probe, the fallback to the basic scan
JavaAnalyzeBegin(r, code, tools, files, self) ==
    IF "checkstyle" \notin tools
    THEN /\ Ret(r, BasicJavaAnalysisOf[code])
         /\ fs' = files
         /\ UNCHANGED local
    ELSE /\ fs' = [files EXCEPT ![UniquePath("java", r)] = File(r, code, FALSE)]
         /\ pc' = [pc EXCEPT ![r] = "java_run"]
         /\ local' = [local EXCEPT ![r].self = self]
         /\ UNCHANGED result

\* analyze_java_code up to the creation of the scratch file, with no other
\* call under way: the singleton and its configuration file, then analyze
JavaStart(r) ==
    \E entry \in {"app.analyze_code", "analyzer_java.analyze_code"}, language \in Tags,
       code \in CodeNames :
        /\ Route(entry, language) = "java"
        /\ javaAnalyzer' = IF javaAnalyzer = 0 THEN r ELSE javaAnalyzer
        /\ \E tools \in SUBSET BackendTools(language) :
              /\ Enter(r, entry, language, code, tools)
              /\ JavaAnalyzeBegin(r, code, tools,
                                  IF javaAnalyzer = 0
                                  THEN [fs EXCEPT ![ConfigPath(r)] = File(0, "empty", FALSE)]
                                  ELSE fs,
                                  IF javaAnalyzer = 0 THEN r ELSE javaAnalyzer)
        /\ UNCHANGED <<toolRead, toolOut, toolRuns>>

\* JavaAnalyzer.analyze from the run of Checkstyle on: parse, metrics, the
\* fallback of the except clause, the unlink of the finally clause, and the
\* return, which lets go of the instance
JavaRun(r, outcomes) ==
    /\ pc[r] = "java_run"
    /\ \E out \in outcomes :
          /\ Ret(r, JavaAnalyzeWith(req[r].code, out))
          /\ toolOut' = [toolOut EXCEPT ![r] = out]
          /\ Ran(r, <<ToolRun("checkstyle", "xml", out)
                        @@ [self |-> local[r].self,
                            config |-> fs[ConfigPath(local[r].self)].exists]>>)
          /\ toolRead' = [toolRead EXCEPT ![r] =
                            toolRead[r] \o (IF out.kind = "notfound" THEN <<>>
                                            ELSE <<fs[UniquePath("java", r)]>>)]
    /\ fs' = JavaCleanup(fs, r, local[r].self)
    /\ local' = [local EXCEPT ![r].self = 0]
    /\ UNCHANGED <<req, env, javaAnalyzer>>

\* analyze_java_code of a call that runs beside others: the test
\* `_java_analyzer is None`
JavaEnter(r, codes) ==
    \E language \in Tags, code \in codes :
        /\ AppRoute(language) = "java"
        /\ \E tools \in SUBSET BackendTools(language) :
              Enter(r, "app.analyze_code", language, code, tools)
        /\ pc' = [pc EXCEPT ![r] = IF javaAnalyzer = 0 THEN "java_new" ELSE "java_load"]
        /\ UNCHANGED <<fs, local, toolRead, toolOut, toolRuns, result, javaAnalyzer>>

\* `_java_analyzer = JavaAnalyzer()`: the constructor writes the
\* configuration file of the new instance, the global then names it
JavaConstruct(r) ==
    /\ pc[r] = "java_new"
    /\ fs' = [fs EXCEPT ![ConfigPath(r)] = File(0, "empty", FALSE)]
    /\ javaAnalyzer' = r
    /\ pc' = [pc EXCEPT ![r] = "java_load"]
    /\ UNCHANGED <<req, env, local, toolRead, toolOut, toolRuns, result>>

\* `_java_analyzer.analyze(code)`: the global is read, and analyze runs in
\* the instance it names up to the creation of the scratch file
JavaLoad(r) ==
    /\ pc[r] = "java_load"
    /\ JavaAnalyzeBegin(r, req[r].code, env[r], fs, javaAnalyzer)
    /\ UNCHANGED <<req, env, toolRead, toolOut, toolRuns, javaAnalyzer>>

\* neither the global nor a running call refers to instance i
Unreferenced(i) == javaAnalyzer # i /\ \A q \in Reqs : local[q].self # i

\* JavaAnalyzer.__del__ of an instance nothing refers to any more
JavaCollect(i) ==
    /\ fs[ConfigPath(i)].exists
    /\ Unreferenced(i)
    /\ fs' = Unlink(fs, ConfigPath(i))
    /\ UNCHANGED <<pc, req, env, local, toolRead, toolOut, toolRuns, result, javaAnalyzer>>

(***************************************************************************)
(* analyzer_js.py.  The values of its dicts are tagged with their Python   *)
(* type, since the code multiplies a float by what it reads from a dict.   *)
(***************************************************************************)
PyStr(x) == [ty |-> "str", s |-> x, n |-> 0]
PyInt(x) == [ty |-> "int", s |-> "", n |-> x]
PyNone == [ty |-> "NoneType", s |-> "", n |-> 0]

\* d.get(key, default)
DictGet(d, key, default) == IF key \in DOMAIN d THEN d[key] ELSE default

\* one entry of the `messages` list of ESLint's JSON report
EslintMessage(severity, ruleId) ==
    [line |-> PyInt(1), column |-> PyInt(1), message |-> PyStr("m"), severity |-> PyInt(severity),
     ruleId |-> PyStr(ruleId)]

\* what one run of ESLint can end in: TimeoutExpired, another exception, an
\* empty stdout, text that is not JSON, or the JSON list of per-file results
EslintOutcomes ==
    { [kind |-> k, files |-> <<>>] : k \in {"timeout", "error", "empty", "malformed"} }
    \cup { [kind |-> "json", files |-> <<[messages |-> ms]>>] :
             ms \in { <<>>,
                      <<EslintMessage(2, "no-undef")>>,
                      <<EslintMessage(1, "no-console")>>,
                      <<EslintMessage(2, "no-undef"), EslintMessage(1, "no-eval"),
                        EslintMessage(2, "no-empty")>> } }

RECURSIVE EslintIssues(_, _)
\* the issues _parse_eslint_output appends for one file to all_errors
\* (toErrors) or to all_warnings
EslintIssues(messages, toErrors) ==
    IF messages = <<>> THEN <<>>
    ELSE LET m == Head(messages)
             isError == DictGet(m, "severity", PyInt(1)) = PyInt(2)
             issue == [line |-> DictGet(m, "line", PyInt(0)),
                       column |-> DictGet(m, "column", PyInt(0)),
                       message |-> DictGet(m, "message", PyStr("Unknown issue")),
                       severity |-> IF isError THEN PyStr("error") ELSE PyStr("warning"),
                       symbol |-> DictGet(m, "ruleId", PyStr("unknown-rule")),
                       rule_id |-> DictGet(m, "ruleId", PyStr("unknown-rule"))]
         IN (IF isError = toErrors THEN <<issue>> ELSE <<>>)
            \o EslintIssues(Tail(messages), toErrors)

RECURSIVE EslintAll(_, _)
EslintAll(files, toErrors) ==
    IF files = <<>> THEN <<>>
    ELSE EslintIssues(DictGet(Head(files), "messages", <<>>), toErrors)
         \o EslintAll(Tail(files), toErrors)

\* JavaScriptAnalyzer._parse_eslint_output
ParseEslintOutput(eslint_result) ==
    LET all_errors == EslintAll(eslint_result, TRUE)
        all_warnings == EslintAll(eslint_result, FALSE)
    IN [errors |-> all_errors, warnings |-> all_warnings,
        total_issues |-> Len(all_errors) + Len(all_warnings)]

\* complexity_indicators.get(rule_id, 0.1), in tenths
ComplexityWeight(rule_id) ==
    CASE rule_id \in {"no-unused-vars", "no-inner-declarations"} -> 5
      [] rule_id \in {"complexity", "cyclomatic-complexity"} -> 20
      [] rule_id \in {"max-depth", "max-nested-callbacks", "no-eval", "no-implied-eval"} -> 15
      [] rule_id \in {"max-params", "max-statements", "no-loop-func", "no-with"} -> 10
      [] OTHER -> 1

RECURSIVE WeightedSum(_)
\* the sum of weight * severity over the issues, in tenths
WeightedSum(issues) ==
    IF issues = <<>> THEN 0
    ELSE ComplexityWeight(DictGet(Head(issues), "ruleId", PyStr("")).s)
            * DictGet(Head(issues), "severity", PyInt(1)).n
         + WeightedSum(Tail(issues))

\* JavaScriptAnalyzer._calculate_complexity_score: `weight * severity` with a
\* float weight raises TypeError unless severity is a number
CalculateComplexityScore(issues) ==
    IF issues = <<>> THEN [raises |-> "", value |-> Float(1)]
    ELSE IF \E i \in 1..Len(issues) : DictGet(issues[i], "severity", PyInt(1)).ty # "int"
    THEN [raises |-> "TypeError", value |-> Float(0)]
    ELSE [raises |-> "", value |-> RMin(Rat(10 + WeightedSum(issues), 10), Float(20))]

\* critical_rules of _calculate_maintainability_index
CriticalRules ==
    {"no-eval", "no-implied-eval", "no-with", "no-global-assign", "no-unreachable",
     "no-unused-vars", "no-undef"}

\* JavaScriptAnalyzer._calculate_maintainability_index
CalculateMaintainabilityIndex(errors, warnings) ==
    LET critical == {i \in 1..Len(errors) :
                        LET rule == DictGet(errors[i], "ruleId", PyNone)
                        IN rule.ty = "str" /\ rule.s \in CriticalRules}
        error_deduction == Len(errors) * 5 + Cardinality(critical) * 3
        warning_deduction == Len(warnings) * 2
    IN Clamp(Float(0), Float(100), Float(100 - error_deduction - warning_deduction))

\* the result of analyze_code when _run_eslint returned None
JsUnavailableResult(language) ==
    MkResult("JSAnalysisResult", language, <<>>,
             <<Issue(1, 1, "warning", "eslint-unavailable")>>, 1, Float(5), Float(50), FALSE)

\* a faulty variant of RunEslintNone that takes a stdout that is not JSON for
\* an empty report
RunEslintNoneLenient(available, out) == ~available \/ out.kind \in {"timeout", "error"}

\* JavaScriptAnalyzer._run_eslint returns None
RunEslintNone(available, out) ==
    ~available \/ out.kind \in {"timeout", "error", "malformed"}

\* the try block of JavaScriptAnalyzer.analyze_code: a result, or an exception
JsAnalyzeWith(language, available, out) ==
    IF RunEslintNone(available, out) THEN JsUnavailableResult(language)
    ELSE LET parsed == ParseEslintOutput(out.files)
             complexity == CalculateComplexityScore(parsed.errors \o parsed.warnings)
             maintainability == CalculateMaintainabilityIndex(parsed.errors, parsed.warnings)
         IN IF complexity.raises # "" THEN Raised(complexity.raises)
            ELSE MkResult("JSAnalysisResult", language, parsed.errors, parsed.warnings,
                          parsed.total_issues, complexity.value, maintainability, FALSE)

\* a faulty variant of RemoveEslintConfig that unlinks the file after the
\* run instead of in a finally clause: an exception of the run skips it
RemoveEslintConfigAfterRun(files, r, out) ==
    IF out.kind \in {"timeout", "error"} THEN files
    ELSE Unlink(files, UniquePath("jsconfig", r))

\* the inner finally clause of _run_eslint, whatever the run ended in
RemoveEslintConfig(files, r, out) == Unlink(files, UniquePath("jsconfig", r))

\* analyze_javascript_code up to the run of ESLint: the probe of the
\* constructor, the NamedTemporaryFile of analyze_code and, when the probe
\* found the tool, the configuration file of _run_eslint
JsStart(r) ==
    \E entry \in {"app.analyze_code", "analyzer_js.analyze_code"}, language \in Tags,
       code \in CodeNames :
        /\ Route(entry, language) = "js"
        /\ \E tools \in SUBSET BackendTools(language) :
              /\ Enter(r, entry, language, code, tools)
              /\ fs' = [fs EXCEPT ![UniquePath("js", r)] = File(r, code, FALSE),
                                  ![UniquePath("jsconfig", r)] =
                                      IF "eslint" \in tools THEN File(r, "empty", FALSE)
                                      ELSE NoFile]
        /\ Goto(r, "js_run", <<>>, <<>>, <<>>)
        /\ UNCHANGED <<result, toolOut, toolRuns, javaAnalyzer>>

\* JavaScriptAnalyzer.analyze_code from the run of ESLint on: the finally
\* clause of _run_eslint, parse, metrics, and the unlink of the finally
\* clause of analyze_code, which also runs when the metrics raise
JsRun(r) ==
    /\ pc[r] = "js_run"
    /\ \E out \in EslintOutcomes :
          LET available == "eslint" \in env[r]
              res == JsAnalyzeWith(req[r].language, available, out)
          IN /\ IF res.kind = "raise" THEN Raise(r, res.exc) ELSE Ret(r, res)
             /\ toolRead' = [toolRead EXCEPT ![r] =
                               toolRead[r] \o (IF available /\ out.kind # "error"
                                               THEN <<fs[UniquePath("js", r)]>> ELSE <<>>)]
             /\ toolOut' = [toolOut EXCEPT ![r] = IF available THEN out ELSE NoOut]
             /\ Ran(r, IF available
                       THEN <<ToolRun("eslint", "json", out)
                                @@ [config |-> fs[UniquePath("jsconfig", r)].exists]>>
                       ELSE <<>>)
             /\ fs' = Unlink(IF available THEN RemoveEslintConfig(fs, r, out) ELSE fs,
                             UniquePath("js", r))
    /\ UNCHANGED <<req, env, local, javaAnalyzer>>

(***************************************************************************)
(* analyzer_py.py                                                          *)
(***************************************************************************)
\* one entry of pylint's JSON report
PylintIssue(type) == [type |-> type, line |-> 4, column |-> 0, symbol |-> "some-symbol"]

\* one line of a stdout that is not JSON: whether _parse_pylint_text takes
\* it, and the severity word it then reads as the type
PylintLine(taken, type) == [taken |-> taken, type |-> type]

\* what the run of pylint can end in: TimeoutExpired, FileNotFoundError,
\* another exception, or a stdout that is empty, a JSON list, another JSON
\* value, or no JSON at all
PylintOutcomes ==
    { [kind |-> k, issues |-> <<>>, lines |-> <<>>] :
        k \in {"timeout", "notfound", "runtime", "empty", "json_other"} }
    \cup { [kind |-> "json", issues |-> is, lines |-> <<>>] :
             is \in { <<>>, <<PylintIssue("error")>>, <<PylintIssue("convention")>>,
                      <<PylintIssue("warning"), PylintIssue("fatal"), PylintIssue("refactor"),
                        PylintIssue("info")>> } }
    \cup { [kind |-> "text", issues |-> <<>>, lines |-> ls] :
             ls \in { <<PylintLine(TRUE, "error"), PylintLine(FALSE, "")>> } }

\* CodeAnalyzer._create_error_result, without the score
CreateErrorResult(error_message, error_type) ==
    [issues |-> <<>>, error |-> error_message, error_type |-> error_type]

RECURSIVE ParsePylintText(_)
\* CodeAnalyzer._parse_pylint_text
ParsePylintText(lines) ==
    IF lines = <<>> THEN <<>>
    ELSE (IF Head(lines).taken
          THEN <<[type |-> Head(lines).type, line |-> 1, column |-> 0, symbol |-> "unknown"]>>
          ELSE <<>>) \o ParsePylintText(Tail(lines))

\* CodeAnalyzer.run_pylint
RunPylint(out) ==
    CASE out.kind = "timeout" -> CreateErrorResult("Analysis timeout", "timeout")
      [] out.kind = "notfound" -> CreateErrorResult("Pylint not installed", "environment")
      [] out.kind = "runtime" -> CreateErrorResult("OSError", "runtime")
      [] out.kind = "json" -> [issues |-> out.issues, error |-> "", error_type |-> ""]
      [] out.kind = "text" -> [issues |-> ParsePylintText(out.lines), error |-> "", error_type |-> ""]
      [] OTHER -> [issues |-> <<>>, error |-> "", error_type |-> ""]

\* one function block of `radon cc --json`
CcItem(complexity) == [name |-> "f", complexity |-> complexity]

\* what one pass of radon can end in: TimeoutExpired, FileNotFoundError,
\* another exception, an empty stdout, text that is not JSON, or a JSON dict
\* given as the sequence of its values in key order.  A value of the cc pass
\* is the list of the blocks of a file; a value of the mi pass is a dict with
\* the key mi, or, when has_mi is false, a dict without it.
RadonCcOutcomes ==
    { [kind |-> k, values |-> <<>>] : k \in {"timeout", "notfound", "runtime", "empty", "malformed"} }
    \cup { [kind |-> "json", values |-> vs] :
             vs \in { <<>>, << <<>> >>, << <<CcItem(1)>> >>, << <<CcItem(1), CcItem(4)>> >>,
                      << <<>>, <<CcItem(3)>> >> } }

MiValue(has_mi, mi) == [has_mi |-> has_mi, mi |-> mi]

RadonMiOutcomes ==
    { [kind |-> k, values |-> <<>>] : k \in {"timeout", "runtime", "empty", "malformed"} }
    \cup { [kind |-> "json", values |-> vs] :
             vs \in { <<>>, <<MiValue(TRUE, 100)>>, <<MiValue(TRUE, 62)>>,
                      <<MiValue(FALSE, 0)>>, <<MiValue(TRUE, 150)>>, <<MiValue(TRUE, -5)>> } }

RECURSIVE SumComplexity(_)
SumComplexity(items) ==
    IF items = <<>> THEN 0 ELSE Head(items).complexity + SumComplexity(Tail(items))

RECURSIVE AverageFrom(_, _, _)
\* the loop of _calculate_average_complexity over cc_data.values(): the
\* test `function_count == 0` is made after each file, inside the loop
AverageFrom(values, total_complexity, function_count) ==
    IF values = <<>> THEN Rat(total_complexity, function_count)
    ELSE LET total == total_complexity + SumComplexity(Head(values))
             count == function_count + Len(Head(values))
         IN IF count = 0 THEN Float(1) ELSE AverageFrom(Tail(values), total, count)

\* CodeAnalyzer._calculate_average_complexity
CalculateAverageComplexity(cc_data) ==
    IF cc_data = <<>> THEN Float(1) ELSE AverageFrom(cc_data, 0, 0)

RECURSIVE ExtractMaintainabilityIndex(_)
\* CodeAnalyzer._extract_maintainability_index: the first value with the key
\* mi, as it is
ExtractMaintainabilityIndex(mi_data) ==
    IF mi_data = <<>> THEN Float(50)
    ELSE IF Head(mi_data).has_mi THEN Float(Head(mi_data).mi)
    ELSE ExtractMaintainabilityIndex(Tail(mi_data))

\* json.loads of a pass's stdout, {} when it is empty or not JSON
RadonData(out) == IF out.kind = "json" THEN out.values ELSE <<>>

RadonFailure(kind) ==
    CASE kind = "timeout" -> CreateErrorResult("Complexity analysis timeout", "timeout")
      [] kind = "notfound" -> CreateErrorResult("Radon not installed", "environment")
      [] OTHER -> CreateErrorResult("OSError", "runtime")

RadonRaised(out) == out.kind \in {"timeout", "notfound", "runtime"}

\* CodeAnalyzer.run_radon_complexity: both passes run before either stdout
\* is read; has_metrics tells whether the dict has the metric keys
RunRadonComplexity(cc, mi) ==
    IF RadonRaised(cc) THEN RadonFailure(cc.kind) @@ [has_metrics |-> FALSE]
    ELSE IF RadonRaised(mi) THEN RadonFailure(mi.kind) @@ [has_metrics |-> FALSE]
    ELSE [has_metrics |-> TRUE, error |-> "",
          complexity |-> CalculateAverageComplexity(RadonData(cc)),
          maintainability_index |-> ExtractMaintainabilityIndex(RadonData(mi))]

\* a tool_error entry of parse_analysis_results
ToolError(message, severity) == [type |-> "tool_error", message |-> message, severity |-> severity]

RECURSIVE PylintIssues(_, _)
\* the issues parse_analysis_results appends to errors (toErrors) or to warnings
PylintIssues(issues, toErrors) ==
    IF issues = <<>> THEN <<>>
    ELSE LET i == Head(issues)
             isError == i.type \in {"error", "fatal"}
         IN (IF isError = toErrors
             THEN <<[line |-> i.line, column |-> i.column, symbol |-> i.symbol,
                     severity |-> i.type]>>
             ELSE <<>>) \o PylintIssues(Tail(issues), toErrors)

\* a faulty variant of ParseAnalysisResults that appends the tool_error
\* entries after the lint issues
ParseAnalysisResultsLintFirst(pylint_result, radon_result, language) ==
    LET errors ==
            PylintIssues(pylint_result.issues, TRUE)
            \o (IF pylint_result.error # ""
                THEN <<ToolError(pylint_result.error, "high")>> ELSE <<>>)
            \o (IF radon_result.error # ""
                THEN <<ToolError(radon_result.error, "medium")>> ELSE <<>>)
        warnings == PylintIssues(pylint_result.issues, FALSE)
        complexity == IF radon_result.has_metrics THEN radon_result.complexity ELSE Float(1)
        maintainability ==
            IF radon_result.has_metrics THEN radon_result.maintainability_index ELSE Float(50)
    IN MkResult("pyAnalysisResult", language, errors, warnings, Len(errors) + Len(warnings),
                complexity, maintainability, FALSE)

\* CodeAnalyzer.parse_analysis_results
ParseAnalysisResults(pylint_result, radon_result, language) ==
    LET errors ==
            (IF pylint_result.error # ""
             THEN <<ToolError(pylint_result.error, "high")>> ELSE <<>>)
            \o (IF radon_result.error # ""
                THEN <<ToolError(radon_result.error, "medium")>> ELSE <<>>)
            \o PylintIssues(pylint_result.issues, TRUE)
        warnings == PylintIssues(pylint_result.issues, FALSE)
        complexity == IF radon_result.has_metrics THEN radon_result.complexity ELSE Float(1)
        maintainability ==
            IF radon_result.has_metrics THEN radon_result.maintainability_index ELSE Float(50)
    IN MkResult("pyAnalysisResult", language, errors, warnings, Len(errors) + Len(warnings),
                complexity, maintainability, FALSE)

\* the sources submitted to the Python adapter: it only writes the text to
\* the scratch file, and what its tools print is drawn apart from the text
PyCodes == {"empty", "long_line"}

\* analyze_code_py up to the creation of the scratch file
PyStart(r) ==
    \E entry \in {"app.analyze_code", "analyzer_py.analyze_code_py"}, language \in Tags,
       code \in PyCodes :
        /\ Route(entry, language) = "py"
        /\ \E tools \in SUBSET BackendTools(language) : Enter(r, entry, language, code, tools)
        /\ fs' = [fs EXCEPT ![UniquePath("py", r)] = File(r, code, FALSE)]
        /\ Goto(r, "py_pylint", <<>>, <<>>, <<>>)
        /\ UNCHANGED <<result, toolOut, toolRuns, javaAnalyzer>>

\* the outcomes a tool run as `python -m tool` can have: when the module is
\* not installed the interpreter exits with an empty stdout
ModuleOutcomes(installed, outcomes) ==
    IF installed THEN outcomes ELSE {o \in outcomes : o.kind = "empty"}

\* analyze_python_code: run_pylint
PyPylint(r) ==
    /\ pc[r] = "py_pylint"
    /\ \E out \in ModuleOutcomes("pylint" \in env[r], PylintOutcomes) :
          /\ local' = [local EXCEPT ![r].issues = RunPylint(out).issues,
                                    ![r].error = RunPylint(out).error]
          /\ toolRead' = [toolRead EXCEPT ![r] = toolRead[r] \o <<fs[UniquePath("py", r)]>>]
          /\ toolOut' = [toolOut EXCEPT ![r] = out]
          /\ Ran(r, <<ToolRun("pylint", "json", out)>>)
    /\ pc' = [pc EXCEPT ![r] = "py_radon"]
    /\ UNCHANGED <<req, env, fs, result, javaAnalyzer>>

\* analyze_python_code from run_radon_complexity on: both passes of radon,
\* parse_analysis_results, and cleanup in the finally clause
PyRadon(r) ==
    /\ pc[r] = "py_radon"
    /\ \E cc \in ModuleOutcomes("radon" \in env[r], RadonCcOutcomes),
          mi \in ModuleOutcomes("radon" \in env[r], RadonMiOutcomes) :
          /\ Ret(r, ParseAnalysisResults(local[r], RunRadonComplexity(cc, mi), "Python"))
          /\ Ran(r, IF RadonRaised(cc) THEN <<ToolRun("radon", "cc", cc)>>
                    ELSE <<ToolRun("radon", "cc", cc), ToolRun("radon", "mi", mi)>>)
    /\ fs' = Unlink(fs, UniquePath("py", r))
    /\ UNCHANGED <<req, env, local, toolRead, toolOut, javaAnalyzer>>

(***************************************************************************)
(* Specifications                                                          *)
(***************************************************************************)
\* the first run of clang-tidy writes text; the second may write YAML
ClangTextOutcomes == {o \in ClangOutcomes : o.kind # "yaml"}

\* no other slot has a call in progress
Alone(r) == \A q \in Reqs \ {r} : pc[q] = "idle"

\* one call at a time, through any entry point
Next ==
    \E r \in Reqs :
        \/ Alone(r) /\ Unsupported(r)
        \/ Alone(r) /\ CppStart(r, CodeNames)
        \/ CppRunTidy(r, ClangTextOutcomes)
        \/ CppRunYaml(r, ClangOutcomes)
        \/ CppFinish(r)
        \/ Alone(r) /\ JavaStart(r)
        \/ JavaRun(r, CheckstyleOutcomes)
        \/ Alone(r) /\ JsStart(r)
        \/ JsRun(r)
        \/ Alone(r) /\ PyStart(r)
        \/ PyPylint(r)
        \/ PyRadon(r)
        \/ Return(r)

Spec == Init /\ [][Next]_vars

\* the sources and tool outcomes of the concurrent C-family calls
ConcCodes == {"cpp_if", "branchy"}
ConcOutcomes ==
    {o \in ClangOutcomes :
        \/ o.kind = "timeout"
        \/ o.kind = "text" /\ o.lines \in {<<>>, <<ClangLine("warning", TRUE)>>}}

\* C-family calls of several sessions of the front end, interleaved
NextConc ==
    \E r \in Reqs :
        \/ CppStart(r, ConcCodes)
        \/ CppRunTidy(r, ConcOutcomes)
        \/ CppRunYaml(r, ConcOutcomes)
        \/ CppFinish(r)
        \/ Return(r)

SpecConc == Init /\ [][NextConc]_vars

\* the first step of a call of slot r, through any entry point
Begin(r) ==
    \/ Unsupported(r)
    \/ CppStart(r, CodeNames)
    \/ JavaStart(r)
    \/ JsStart(r)
    \/ PyStart(r)

\* a later step of the call of slot r
Proceed(r) ==
    \/ CppRunTidy(r, ClangTextOutcomes)
    \/ CppRunYaml(r, ClangOutcomes)
    \/ CppFinish(r)
    \/ JavaRun(r, CheckstyleOutcomes)
    \/ JsRun(r)
    \/ PyPylint(r)
    \/ PyRadon(r)

\* the second call has the arguments and the installed tools of the first
SameCall == req'[2] = req[1] /\ env'[2] = env[1]

\* every tool invocation of the second call ends as the invocation of the
\* first call at the same place did
SameRuns ==
    /\ Len(toolRuns'[2]) <= Len(toolRuns[1])
    /\ \A i \in 1..Len(toolRuns'[2]) : toolRuns'[2][i] = toolRuns[1][i]

\* a call on one of two sources in slot 1, and when it is over the same call
\* again in slot 2 with the tools behaving the same; the caller then takes
\* both outcomes
NextTwice ==
    \E r \in {1, 2} :
        \/ /\ IF r = 1 THEN pc[2] = "idle" ELSE pc[1] \in {"returned", "raised"}
           /\ Begin(r)
           /\ IF r = 1 THEN req'[1].code \in {"cpp_if", "long_line"} ELSE SameCall
        \/ Proceed(r) /\ (r = 2 => SameRuns)
        \/ /\ IF r = 1 THEN pc[2] \in {"returned", "raised"} ELSE pc[1] = "idle"
           /\ Return(r)

SpecTwice == Init /\ [][NextTwice]_vars

\* the source and tool outcomes of the concurrent Java calls
ConcJavaCodes == {"java_cls"}
ConcJavaOutcomes ==
    {o \in CheckstyleOutcomes :
        \/ o.kind = "timeout"
        \/ o.kind = "xml" /\ o.code = 1 /\ o.elems = <<XmlError("2", "error")>>}

\* Java calls of several sessions of the front end, interleaved, the first
\* ones racing on the module-level instance
NextJavaConc ==
    \E r \in Reqs :
        \/ JavaEnter(r, ConcJavaCodes)
        \/ JavaConstruct(r)
        \/ JavaLoad(r)
        \/ JavaRun(r, ConcJavaOutcomes)
        \/ JavaCollect(r)
        \/ Return(r)

SpecJavaConc == Init /\ [][NextJavaConc]_vars

\* C-family and Java calls of the sessions of the front end on one source,
\* at most two under way at a time, interleaved; clang-tidy times out or
\* reports a warning, so that its second pass is not taken
NextMixed ==
    \E r \in Reqs :
        \/ /\ Cardinality({q \in Reqs \ {r} : pc[q] # "idle"}) <= 1
           /\ CppStart(r, {"branchy"})
        \/ CppRunTidy(r, {o \in ConcOutcomes : o.kind = "timeout" \/ o.lines # <<>>})
        \/ CppFinish(r)
        \/ /\ Cardinality({q \in Reqs \ {r} : pc[q] # "idle"}) <= 1
           /\ JavaEnter(r, {"branchy"})
        \/ JavaConstruct(r)
        \/ JavaLoad(r)
        \/ JavaRun(r, ConcJavaOutcomes)
        \/ JavaCollect(r)
        \/ Return(r)

SpecMixed == Init /\ [][NextMixed]_vars

\* the longest of the enumerated message lists
MaxMessages == 2

\* the reports the maintainability index is computed for: every list of up
\* to MaxMessages messages over two severities and critical and other rules,
\* and one long enough for the lower clamp
MetricReports ==
    LET messages == {EslintMessage(2, "no-undef"), EslintMessage(2, "no-empty"),
                     EslintMessage(1, "no-eval"), EslintMessage(1, "no-console")}
    IN { <<[messages |-> ms]>> :
            ms \in UNION {[1..n -> messages] : n \in 0..MaxMessages}
                      \cup {[i \in 1..21 |-> EslintMessage(2, "no-undef")]} }

\* _calculate_maintainability_index applied to the lists that
\* _parse_eslint_output builds from a report; the slot keeps the report and
\* the value
JsMetric(r) ==
    /\ pc[r] = "idle"
    /\ \E files \in MetricReports :
          LET parsed == ParseEslintOutput(files)
          IN /\ toolOut' = [toolOut EXCEPT ![r] = [kind |-> "json", files |-> files]]
             /\ result' = [result EXCEPT ![r] =
                              [Blank("maintainability_index", "") EXCEPT
                                  !.errors = parsed.errors,
                                  !.warnings = parsed.warnings,
                                  !.total_issues = parsed.total_issues,
                                  !.maintainability_index =
                                      CalculateMaintainabilityIndex(parsed.errors,
                                                                    parsed.warnings)]]
    /\ pc' = [pc EXCEPT ![r] = "returned"]
    /\ UNCHANGED <<req, env, fs, local, toolRead, toolRuns, javaAnalyzer>>

\* the functions of the JS adapter on their own
NextJsUnits == \E r \in Reqs : JsMetric(r) \/ Return(r)

SpecJsUnits == Init /\ [][NextJsUnits]_vars

(***************************************************************************)
(* Properties                                                              *)
(***************************************************************************)
\* the call of slot r has returned a result object
Returned(r) == pc[r] = "returned" /\ result[r].kind \in ResultKinds

\* the call of slot r is over
Finished(r) == pc[r] \in {"returned", "raised"}

\* the adapter that serves the call of slot r
RouteOf(r) == Route(req[r].entry, req[r].language)

\* 0 <= x for a float
RNonNeg(x) == RLe(Float(0), x)

\* C1: every result an adapter or an unsupported-language branch returns has
\* total_issues = len(errors) + len(warnings), whatever the tool did
C1_TotalIssues ==
    \A r \in Reqs :
        Returned(r) =>
            result[r].total_issues = Len(result[r].errors) + Len(result[r].warnings)

\* a returned result that has both errors and warnings
C1_Witness ==
    \E r \in Reqs :
        /\ Returned(r)
        /\ result[r].errors # <<>>
        /\ result[r].warnings # <<>>
        /\ result[r].total_issues >= 2

\* C2: no call ends by propagating an exception to its caller, whatever the
\* source and whatever the external tool did
C2_NeverRaises == \A r \in Reqs : pc[r] # "raised"

\* the scratch files a call of slot r creates
ScratchPaths(r) == {CppTempPath} \cup {UniquePath(k, r) : k \in {"js", "java", "py"}}

\* C3: when a call is over, by a return or by an exception, none of the
\* scratch files it created exists any more
C3_ScratchDeleted ==
    \A r \in Reqs : Finished(r) => \A p \in ScratchPaths(r) : ~fs[p].exists

\* a call that ended with an exception raised while the metrics were
\* computed, after ESLint had read its scratch file, and the file is gone
C3_Witness ==
    \E r \in Reqs :
        /\ pc[r] = "raised"
        /\ RouteOf(r) = "js"
        /\ toolRead[r] # <<>>
        /\ toolRead[r][1].exists /\ toolRead[r][1].writer = r
        /\ ~fs[UniquePath("js", r)].exists

\* C4: every file content a clang-tidy run of a call read is the source that
\* call submitted, with the include scaffolding that source gets
C4_ReadsOwnContent ==
    \A r \in Reqs :
        \A i \in 1..Len(toolRead[r]) :
            /\ toolRead[r][i].exists
            /\ toolRead[r][i].text = req[r].code
            /\ toolRead[r][i].scaffold = ~HasIncludesOf[req[r].code]

\* C5: every returned result has 0 <= maintainability_index <= 100 and
\* complexity >= 0, also when the metrics are taken from the tool's output
C5_MetricBounds ==
    \A r \in Reqs :
        Returned(r) =>
            /\ RNonNeg(result[r].maintainability_index)
            /\ RLe(result[r].maintainability_index, Float(100))
            /\ RNonNeg(result[r].complexity)

\* C6: for the empty source every backend returns complexity 1.0 and
\* maintainability_index 100.0, with its tool installed or not
C6_EmptyInput ==
    \A r \in Reqs :
        Returned(r) /\ req[r].code = "empty" /\ RouteOf(r) \in {"cpp", "java", "js", "py"} =>
            /\ REq(result[r].complexity, Float(1))
            /\ REq(result[r].maintainability_index, Float(100))

\* the messages of the per-file lists of ESLint's report
RECURSIVE EslintMessages(_)
EslintMessages(files) ==
    IF files = <<>> THEN <<>> ELSE Head(files).messages \o EslintMessages(Tail(files))

\* the number of messages with the numeric severity 2
SeverityTwo(messages) ==
    Cardinality({i \in 1..Len(messages) : messages[i].severity = PyInt(2)})

\* C7: when ESLint returned its per-file message lists, the call returns a
\* result with one error per message of severity 2 and one warning per other
\* message
C7_EslintMapping ==
    \A r \in Reqs :
        Finished(r) /\ RouteOf(r) = "js" /\ toolOut[r].kind = "json" =>
            /\ Returned(r)
            /\ Len(result[r].errors) = SeverityTwo(EslintMessages(toolOut[r].files))
            /\ Len(result[r].errors) + Len(result[r].warnings)
                  = Len(EslintMessages(toolOut[r].files))
            /\ result[r].total_issues = Len(EslintMessages(toolOut[r].files))

\* C8: a call of the dispatcher with a language the front end lists as
\* supported, made while none of the backend's tools is installed, returns a
\* result object, never None
C8_PopulatedResult ==
    \A r \in Reqs :
        (/\ Finished(r)
         /\ req[r].entry = "app.analyze_code"
         /\ req[r].language \in SupportedUITags
         /\ env[r] = {})
        => Returned(r)

\* C9: a call with the tag Rust, through any entry point that takes a tag,
\* returns no error, one NotImplemented warning, complexity 1.0 and
\* maintainability_index 75.0
C9_UnsupportedLanguage ==
    \A r \in Reqs :
        Finished(r) /\ req[r].language = "Rust" =>
            /\ Returned(r)
            /\ result[r].errors = <<>>
            /\ Len(result[r].warnings) = 1
            /\ result[r].warnings[1].symbol = "NotImplemented"
            /\ REq(result[r].complexity, Float(1))
            /\ REq(result[r].maintainability_index, Float(75))

\* the issues the tool's output carries, counted as the parser of the
\* adapter recognises them
EmittedCount(route, out) ==
    CASE route = "cpp" /\ out.kind = "text" ->
            Cardinality({i \in 1..Len(out.lines) : ClangLineMatches(out.lines[i])})
      [] route = "cpp" /\ out.kind = "yaml" -> Len(out.diags)
      [] route = "java" /\ out.kind = "xml" -> Len(out.elems)
      [] route = "java" /\ out.kind = "unparsable" ->
            Cardinality({i \in 1..Len(out.lines) : out.lines[i].shaped})
      [] route = "js" /\ out.kind = "json" -> Len(EslintMessages(out.files))
      [] route = "py" /\ out.kind = "json" -> Len(out.issues)
      [] route = "py" /\ out.kind = "text" ->
            Cardinality({i \in 1..Len(out.lines) : out.lines[i].taken})
      [] OTHER -> 0

\* the result of the call was built from the parsed output of the tool
BuiltFromTool(r) ==
    /\ Returned(r)
    /\ toolOut[r].kind \in {"text", "yaml", "xml", "unparsable", "json"}
    /\ RouteOf(r) = "java" => ~CheckstyleRaises(toolOut[r]) /\ ~ParseCheckstyleRaises(toolOut[r])

\* the entries of a result list that stand for issues of the tool
ToolIssues(list) == Cardinality({i \in 1..Len(list) : "type" \notin DOMAIN list[i]})

\* C10: every issue the tool emitted, whatever its native severity, is in
\* the errors or in the warnings of the result; none is dropped
C10_SeverityTotal ==
    \A r \in Reqs :
        BuiltFromTool(r) =>
            ToolIssues(result[r].errors) + ToolIssues(result[r].warnings)
                = EmittedCount(RouteOf(r), toolOut[r])

\* the tool invocations of the call of slot r that ended in a timeout
Timeouts(r) ==
    Cardinality({i \in 1..Len(toolRuns[r]) : toolRuns[r][i].out.kind = "timeout"})

\* an entry of a result list that reports a timeout: the synthetic issue of
\* the C-family adapter, the warning of the JS adapter, a tool_error
IsTimeoutEntry(e) ==
    \/ "symbol" \in DOMAIN e /\ e.symbol \in {"timeout", "eslint-unavailable"}
    \/ /\ "type" \in DOMAIN e
       /\ e.type = "tool_error"
       /\ e.message \in {"Analysis timeout", "Complexity analysis timeout"}

TimeoutEntries(res) ==
    Cardinality({i \in 1..Len(res.errors) : IsTimeoutEntry(res.errors[i])})
        + Cardinality({i \in 1..Len(res.warnings) : IsTimeoutEntry(res.warnings[i])})

\* C11: every timeout of a tool invocation of a call, the second pass of a
\* tool included, is an entry of the returned result, a synthetic issue or a
\* tool_error; none makes the call raise and none is passed over
C11_TimeoutsReported ==
    \A r \in Reqs :
        Finished(r) /\ Timeouts(r) > 0 =>
            /\ Returned(r)
            /\ TimeoutEntries(result[r]) >= Timeouts(r)

\* the call of slot r has written its scratch file and has a run of
\* clang-tidy on it under way or ahead
CppToolPending(r) == pc[r] \in {"cpp_tidy", "cpp_yaml"} /\ "clang-tidy" \in env[r]

\* C12: while a C-family call has a run of clang-tidy on the scratch file
\* under way, no step of another call removes that file
C12_DeletedByOwner ==
    [][\A r \in Reqs :
          CppToolPending(r) /\ fs[CppTempPath].exists /\ pc'[r] = pc[r]
              => fs'[CppTempPath].exists]_vars

\* the invocation raised: a timeout, a failure to start, an exit code the
\* adapter rejects
RunFailed(run) == run.out.kind \in {"timeout", "error", "notfound", "runtime", "exit"}

\* the invocation ended, and the adapter took nothing from its output
NoUsableOutput(run) ==
    \/ run.out.kind \in {"empty", "malformed", "json_other"}
    \/ /\ run.tool = "clang-tidy"
       /\ run.out.kind \in {"text", "yaml"}
       /\ ParseClangTidyOutput(run.out, run.pass) = << <<>>, <<>> >>

\* run b invokes the tool of run a again; the cc pass and the mi pass of
\* radon are two analyses, not one repeated
Again(a, b) == a.tool = b.tool /\ ~(a.tool = "radon" /\ a.pass # b.pass)

C14_Idempotent ==
    (/\ pc[1] \in {"returned", "raised"}
     /\ pc[2] \in {"returned", "raised"}
     /\ req[2] = req[1]
     /\ env[2] = env[1]
     /\ toolRuns[2] = toolRuns[1])
    => /\ pc[2] = pc[1]
       /\ result[2].kind = result[1].kind
       /\ result[2].exc = result[1].exc
       /\ result[2].errors = result[1].errors
       /\ result[2].warnings = result[1].warnings
       /\ result[2].complexity = result[1].complexity
       /\ result[2].maintainability_index = result[1].maintainability_index

\* both calls are over, the tool ran in each and reported errors
C14_Witness ==
    /\ Returned(1) /\ Returned(2)
    /\ req[2] = req[1] /\ env[2] = env[1]
    /\ toolRuns[1] # <<>> /\ toolRuns[2] = toolRuns[1]
    /\ result[1].errors # <<>>
    /\ result[1].warnings # <<>>
    /\ result[2].errors = result[1].errors
\* C15: a C-family call on non-empty code with clang-tidy not installed
\* returns no error and no warning, clang_tidy_available false, and the
\* heuristic complexity: 2 for the program whose only decision construct is
\* one if, 6 for the one with two if, an else if, a ternary and an &&, 1
\* for the one with none
C15_HeuristicOnly ==
    \A r \in Reqs :
        (/\ Returned(r)
         /\ RouteOf(r) = "cpp"
         /\ ~IsBlankOf[req[r].code]
         /\ "clang-tidy" \notin env[r])
        => /\ result[r].errors = <<>>
           /\ result[r].warnings = <<>>
           /\ result[r].total_issues = 0
           /\ result[r].backend_used = FALSE
           /\ toolRuns[r] = <<>>
           /\ req[r].code = "cpp_if" => REq(result[r].complexity, Float(2))
           /\ req[r].code = "branchy" => REq(result[r].complexity, Float(6))
           /\ req[r].code = "long_line" => REq(result[r].complexity, Float(1))

\* the program with one if, analysed with clang-tidy not installed
C15_Witness ==
    \E r \in Reqs :
        /\ Returned(r)
        /\ RouteOf(r) = "cpp"
        /\ req[r].code = "cpp_if"
        /\ "clang-tidy" \notin env[r]
        /\ REq(result[r].complexity, Float(2))
        /\ result[r].backend_used = FALSE

\* the run of Checkstyle failed: it raised, or its output could not be parsed
CheckstyleFailed(out) ==
    CheckstyleRaises(out) \/ ParseCheckstyleRaises(out) \/ out.kind = "unparsable"

\* C16: a Java call made while Checkstyle is not installed, or whose run of
\* Checkstyle failed in any way (not found, timeout, exit code other than 0
\* or 1, an error while its output is parsed), returns the result of the
\* basic scan of the source
C16_JavaFallback ==
    \A r \in Reqs :
        (/\ Finished(r)
         /\ RouteOf(r) = "java"
         /\ ("checkstyle" \notin env[r] \/ CheckstyleFailed(toolOut[r])))
        => /\ Returned(r)
           /\ result[r] = BasicJavaAnalysisOf[req[r].code]

CheckstyleRuns(r) ==
    {i \in 1..Len(toolRuns[r]) : toolRuns[r][i].tool = "checkstyle"}

\* C18: the configuration file of a Java adapter instance is there whenever
\* the instance can be used: while the global names the instance, while a
\* call runs in it, and at every Checkstyle invocation made in it, also when
\* the first calls race and each constructs an instance of its own
C18_ConfigPresent ==
    /\ javaAnalyzer # 0 => fs[ConfigPath(javaAnalyzer)].exists
    /\ \A r \in Reqs : local[r].self # 0 => fs[ConfigPath(local[r].self)].exists
    /\ \A r \in Reqs : \A i \in CheckstyleRuns(r) : toolRuns[r][i].config

\* a call has run Checkstyle in an instance that lost the race for the
\* global, and that instance has been torn down since
C18_Witness ==
    \E r \in Reqs :
        /\ pc[r] = "returned"
        /\ CheckstyleRuns(r) # {}
        /\ \A i \in CheckstyleRuns(r) :
              /\ toolRuns[r][i].self # javaAnalyzer
              /\ toolRuns[r][i].config
              /\ ~fs[ConfigPath(toolRuns[r][i].self)].exists

\* C19: the language field of a result is the tag the caller passed
C19_LanguageEchoed ==
    \A r \in Reqs : Returned(r) => result[r].language = req[r].language

\* the messages with the numeric severity 2 and a rule of the critical set
CriticalErrors(messages) ==
    Cardinality({i \in 1..Len(messages) :
                    /\ messages[i].severity = PyInt(2)
                    /\ messages[i].ruleId.s \in CriticalRules})

\* C20: the maintainability index the JS adapter computes from the issues it
\* parsed out of a report is 100 - 5 * errors - 2 * warnings - 3 * (errors
\* with a critical rule), clamped to [0, 100]
C20_JsMaintainability ==
    \A r \in Reqs :
        pc[r] = "returned" /\ result[r].kind = "maintainability_index"
            => LET messages == EslintMessages(toolOut[r].files)
                   errorCount == SeverityTwo(messages)
                   warningCount == Len(messages) - errorCount
               IN REq(result[r].maintainability_index,
                      Clamp(Float(0), Float(100),
                            Float(100 - 5 * errorCount - 2 * warningCount
                                      - 3 * CriticalErrors(messages))))

RECURSIVE CcBlocks(_)
\* the function blocks of all the entries of a cc report
CcBlocks(values) ==
    IF values = <<>> THEN <<>> ELSE Head(values) \o CcBlocks(Tail(values))

\* the radon passes recorded for the call of slot r
RadonRuns(r, pass) ==
    {i \in 1..Len(toolRuns[r]) : toolRuns[r][i].tool = "radon" /\ toolRuns[r][i].pass = pass}

\* C21: when the cc pass of radon reported function complexities and the mi
\* pass then failed or timed out, the Python result has the mean of the
\* reported complexities and the default maintainability 50
C21_MetricsIndependent ==
    \A r \in Reqs :
        Returned(r) /\ RouteOf(r) = "py" =>
            \A i \in RadonRuns(r, "cc"), j \in RadonRuns(r, "mi") :
                (/\ toolRuns[r][i].out.kind = "json"
                 /\ CcBlocks(toolRuns[r][i].out.values) # <<>>
                 /\ RadonRaised(toolRuns[r][j].out))
                => /\ REq(result[r].complexity,
                          Rat(SumComplexity(CcBlocks(toolRuns[r][i].out.values)),
                              Len(CcBlocks(toolRuns[r][i].out.values))))
                   /\ REq(result[r].maintainability_index, Float(50))

\* the tool_error entries of a list with the given severity
ToolErrors(entries, severity) ==
    {i \in 1..Len(entries) :
        /\ "type" \in DOMAIN entries[i]
        /\ entries[i].type = "tool_error"
        /\ entries[i].severity = severity}

\* the lint tool of the call of slot r failed: it is not installed, or its
\* run timed out or raised
PylintFailed(r) ==
    \/ "pylint" \notin env[r]
    \/ \E i \in 1..Len(toolRuns[r]) :
          toolRuns[r][i].tool = "pylint" /\ RadonRaised(toolRuns[r][i].out)

\* the metrics tool of the call of slot r failed
RadonFailed(r) ==
    \/ "radon" \notin env[r]
    \/ \E i \in 1..Len(toolRuns[r]) :
          toolRuns[r][i].tool = "radon" /\ RadonRaised(toolRuns[r][i].out)

\* C22: a Python call returns; its errors hold one tool_error of severity
\* high exactly when the lint tool failed and one of severity medium exactly
\* when the metrics tool failed, each with a classification tag among
\* timeout, environment and runtime
C22_ToolErrorEntries ==
    \A r \in Reqs :
        Finished(r) /\ RouteOf(r) = "py" =>
            /\ Returned(r)
            /\ Cardinality(ToolErrors(result[r].errors, "high"))
                  = (IF PylintFailed(r) THEN 1 ELSE 0)
            /\ Cardinality(ToolErrors(result[r].errors, "medium"))
                  = (IF RadonFailed(r) THEN 1 ELSE 0)
            /\ \A i \in ToolErrors(result[r].errors, "high")
                         \cup ToolErrors(result[r].errors, "medium") :
                  /\ "error_type" \in DOMAIN result[r].errors[i]
                  /\ result[r].errors[i].error_type \in {"timeout", "environment", "runtime"}

\* the line has text and a literal tab in the white space before it
TabIndented(line) ==
    /\ Strip(line) # <<>>
    /\ \E k \in 1..SkipSpace(line, 0) : line[k] = TAB

\* C23: the basic scan of the Java adapter, taken when Checkstyle is not
\* installed, has a TabCharacter warning for every line of the source that
\* is indented with a tab
C23_TabWarning ==
    \A r \in Reqs :
        Returned(r) /\ RouteOf(r) = "java" /\ "checkstyle" \notin env[r] =>
            LET lines == SplitLines(SourceOf[req[r].code])
            IN \A i \in 1..Len(lines) :
                  TabIndented(lines[i]) =>
                      \E k \in 1..Len(result[r].warnings) :
                          /\ result[r].warnings[k].symbol = "TabCharacter"
                          /\ result[r].warnings[k].line = i

\* one pattern per decision construct: if, while, for, do, switch, case,
\* catch, the ternary operator, || and &&
DecisionPatterns ==
    << WordParen(<<"i", "f">>),
       WordParen(<<"w", "h", "i", "l", "e">>),
       WordParen(<<"f", "o", "r">>),
       <<B>> \o Lit(<<"d", "o">>) \o <<Ws0, Ch("{")>>,
       WordParen(<<"s", "w", "i", "t", "c", "h">>),
       <<B>> \o Lit(<<"c", "a", "s", "e">>) \o <<Ws1>>,
       WordParen(<<"c", "a", "t", "c", "h">>),
       Lit(<<"?">>),
       Lit(<<"|", "|">>),
       Lit(<<"&", "&">>) >>

\* 1 plus one per occurrence of a decision construct, a switch counting
\* `switchWeight`
DecisionComplexity(code, switchWeight) ==
    1 + SumCounts(code, DecisionPatterns, FALSE)
      + (switchWeight - 1) * FindAllCount(code, WordParen(<<"s", "w", "i", "t", "c", "h">>), FALSE)

\* the count above for each submitted source, by the C-family weights and by
\* the Java weights, computed once
DecisionComplexityOf ==
    [c \in CodeNames |->
        [cpp |-> DecisionComplexity(SourceOf[c], 1), java |-> DecisionComplexity(SourceOf[c], 2)]]

\* C24: the complexity of a C-family result and of a Java result is 1 plus
\* one per occurrence of a decision construct of the source (two per switch
\* in Java), each occurrence counted once
C24_ComplexityEstimate ==
    \A r \in Reqs :
        Returned(r) =>
            /\ RouteOf(r) = "cpp" =>
                  REq(result[r].complexity, Float(DecisionComplexityOf[req[r].code].cpp))
            /\ RouteOf(r) = "java" =>
                  REq(result[r].complexity, Float(DecisionComplexityOf[req[r].code].java))

\* the non-blank lines of a source, those longer than 120 characters and
\* those that are comments
LineCounts(code) ==
    LET lines == NonBlankStripped(SplitLines(code))
    IN [total |-> Len(lines),
        long |-> Cardinality({i \in 1..Len(lines) : Len(lines[i]) > MaxLineLength}),
        comments |-> Cardinality({i \in 1..Len(lines) :
                                     \/ StartsWith(lines[i], Chars("//"))
                                     \/ StartsWith(lines[i], Chars("/*"))})]

LineCountsOf == [c \in CodeNames |-> LineCounts(SourceOf[c])]

\* 100 - 2 * complexity - 20 * long / total + 10 * comments / total, clamped
\* to [0, 100]; 100 when there is no non-blank line
StatedMaintainability(counts, complexity) ==
    IF counts.total = 0 THEN Float(100)
    ELSE Clamp(Float(0), Float(100),
               RAdd(RSub(RSub(Float(100), RMul(Float(2), complexity)),
                         Rat(20 * counts.long, counts.total)),
                    Rat(10 * counts.comments, counts.total)))

\* C25: the maintainability_index of a C-family result and of a Java result
\* is the stated function of the result's complexity and of the shares of
\* long lines and of comment lines among the non-blank lines of the source
C25_MaintainabilityEstimate ==
    \A r \in Reqs :
        Returned(r) /\ RouteOf(r) \in {"cpp", "java"} =>
            REq(result[r].maintainability_index,
                StatedMaintainability(LineCountsOf[req[r].code], result[r].complexity))

\* C26: when both passes of radon ended without an exception, the complexity
\* of the Python result is the mean of the complexities of all the function
\* blocks of all the entries of the cc report, and 1 when the report has no
\* block at all
C26_AverageComplexity ==
    \A r \in Reqs :
        Returned(r) /\ RouteOf(r) = "py" =>
            \A i \in RadonRuns(r, "cc"), j \in RadonRuns(r, "mi") :
                ~RadonRaised(toolRuns[r][i].out) /\ ~RadonRaised(toolRuns[r][j].out) =>
                    LET blocks == CcBlocks(RadonData(toolRuns[r][i].out))
                    IN REq(result[r].complexity,
                           IF blocks = <<>> THEN Float(1)
                           ELSE Rat(SumComplexity(blocks), Len(blocks)))

\* the runs of ESLint recorded for the call of slot r
EslintRuns(r) == {i \in 1..Len(toolRuns[r]) : toolRuns[r][i].tool = "eslint"}

\* C27: a JS call that is about to run ESLint has its configuration file;
\* the file was there at every run of ESLint; and it is gone when the call
\* is over, whether the run gave a report, text that is not JSON, a timeout
\* or another exception
C27_EslintConfigRemoved ==
    \A r \in Reqs :
        /\ pc[r] = "js_run" /\ "eslint" \in env[r] => fs[UniquePath("jsconfig", r)].exists
        /\ \A i \in EslintRuns(r) : toolRuns[r][i].config
        /\ Finished(r) => ~fs[UniquePath("jsconfig", r)].exists

\* a JS call is over whose run of ESLint, made with the configuration file
\* in place, timed out
C27_Witness ==
    \E r \in Reqs :
        /\ Finished(r)
        /\ EslintRuns(r) # {}
        /\ \A i \in EslintRuns(r) :
              toolRuns[r][i].config /\ toolRuns[r][i].out.kind = "timeout"
        /\ ~fs[UniquePath("jsconfig", r)].exists

\* the calls of slots p and q went to the same adapter, C-family or Java,
\* with the same source, and both have returned
SameSource(p, q) ==
    /\ Returned(p) /\ Returned(q)
    /\ RouteOf(p) \in {"cpp", "java"}
    /\ RouteOf(q) = RouteOf(p)
    /\ req[q].code = req[p].code

NextOrder ==
    \/ Next
    \/ \E r \in Reqs : Alone(r) /\ JsMetric(r)

SpecOrder == Init /\ [][NextOrder]_vars

RECURSIVE IsSubsequence(_, _)
\* a is b with some of its elements left out
IsSubsequence(a, b) ==
    IF a = <<>> THEN TRUE
    ELSE IF b = <<>> THEN FALSE
    ELSE IF Head(a) = Head(b) THEN IsSubsequence(Tail(a), Tail(b))
    ELSE IsSubsequence(a, Tail(b))

RECURSIVE ReportedMessages(_)
\* the messages of an ESLint report, file after file
ReportedMessages(files) ==
    IF files = <<>> THEN <<>>
    ELSE DictGet(Head(files), "messages", <<>>) \o ReportedMessages(Tail(files))

\* the adapter whose lists slot r holds
AdapterOf(r) ==
    IF result[r].kind = "maintainability_index" THEN "eslint" ELSE RouteOf(r)

\* what tells the entries of one tool output apart, in the order of the
\* output: the line for clang-tidy, the severity word for Checkstyle and
\* pylint, the rule for ESLint
ReportedKeys(adapter, out) ==
    CASE adapter = "cpp" /\ out.kind = "text" ->
            [i \in 1..Len(out.lines) |-> out.lines[i].line]
      [] adapter = "cpp" /\ out.kind = "yaml" ->
            [i \in 1..Len(out.diags) |-> out.diags[i].FileOffset]
      [] adapter = "java" /\ out.kind = "xml" ->
            [i \in 1..Len(out.elems) |-> out.elems[i].severity]
      [] adapter = "java" /\ out.kind = "unparsable" ->
            [i \in 1..Len(out.lines) |-> LowerSeverity(out.lines[i].tag)]
      [] adapter = "py" /\ out.kind = "json" ->
            [i \in 1..Len(out.issues) |-> out.issues[i].type]
      [] adapter = "py" /\ out.kind = "text" ->
            [i \in 1..Len(out.lines) |-> out.lines[i].type]
      [] adapter = "eslint" /\ out.kind = "json" ->
            LET ms == ReportedMessages(out.files)
            IN [i \in 1..Len(ms) |-> DictGet(ms[i], "ruleId", PyStr("unknown-rule"))]
      [] OTHER -> <<>>

\* the entry was not read from the tool output: a tool_error of the Python
\* adapter, a synthetic issue of the C-family adapter
Synthetic(adapter, e) ==
    \/ adapter = "py" /\ "type" \in DOMAIN e
    \/ adapter = "cpp" /\ e.symbol \in {"timeout", "analysis-error"}

\* the same keys, read from the entries of a result list that come from the
\* tool output
EntryKeys(adapter, entries) ==
    LET lint == SelectSeq(entries, LAMBDA e : ~Synthetic(adapter, e))
    IN [i \in 1..Len(lint) |->
          CASE adapter = "cpp" -> lint[i].line
            [] adapter = "eslint" -> lint[i].rule_id
            [] OTHER -> lint[i].severity]

\* the lists of slot r come from the line scan of the Java adapter
FromBasicScan(r) ==
    /\ RouteOf(r) = "java"
    /\ \/ "checkstyle" \notin env[r]
       \/ CheckstyleRaises(toolOut[r])
       \/ ParseCheckstyleRaises(toolOut[r])

\* the line numbers of the entries never go down
InLineOrder(entries) ==
    \A i, j \in 1..Len(entries) : i < j => entries[i].line <= entries[j].line

\* the slot holds the lists an adapter built
HoldsLists(r) ==
    /\ pc[r] = "returned"
    /\ \/ result[r].kind = "maintainability_index"
       \/ Returned(r) /\ RouteOf(r) \in {"cpp", "java", "py"}

\* C29: in the lists an adapter built, the errors that come from the tool
\* output stand in the order of the output and so do the warnings; the lists
\* of the Java line scan are in line order; in a Python result every
\* tool_error entry stands before every lint issue and the entry of the lint
\* tool (high) before the entry of the metrics tool (medium)
C29_StablePartition ==
    \A r \in Reqs :
        HoldsLists(r) =>
            /\ IF AdapterOf(r) = "java" /\ FromBasicScan(r)
               THEN InLineOrder(result[r].errors) /\ InLineOrder(result[r].warnings)
               ELSE LET reported == ReportedKeys(AdapterOf(r), toolOut[r])
                    IN /\ IsSubsequence(EntryKeys(AdapterOf(r), result[r].errors), reported)
                       /\ IsSubsequence(EntryKeys(AdapterOf(r), result[r].warnings), reported)
            /\ AdapterOf(r) = "py" =>
                  LET errors == result[r].errors
                      tool == ToolErrors(errors, "high") \cup ToolErrors(errors, "medium")
                  IN /\ \A i \in tool, j \in (1..Len(errors)) \ tool : i < j
                     /\ \A i \in ToolErrors(errors, "high"),
                           j \in ToolErrors(errors, "medium") : i < j

\* a Python result with the entry of the metrics tool ahead of a lint error
\* and three warnings in the order pylint printed them
C29_Witness ==
    \E r \in Reqs :
        /\ HoldsLists(r)
        /\ AdapterOf(r) = "py"
        /\ Len(result[r].errors) = 2
        /\ ToolErrors(result[r].errors, "medium") = {1}
        /\ EntryKeys("py", result[r].warnings) = <<"warning", "refactor", "info">>

\* the analysis tool of the adapter that serves route
ProbedTool(route) ==
    CASE route = "cpp" -> "clang-tidy"
      [] route = "java" -> "checkstyle"
      [] route = "js" -> "eslint"
      [] OTHER -> "none"

\* the scratch file of the call of slot r in the adapter that serves route
ScratchOf(route, r) == IF route = "cpp" THEN CppTempPath ELSE UniquePath(route, r)

\* what a step leaves of the call of slot r whose availability probe was
\* negative: no run of the tool; in the Java adapter no scratch file; in the
\* C-family and JS adapters, when `always` or the source is not blank, the
\* scratch file written by the first step of the call and gone when the call
\* has finished
ProbeNegativeStep(r, always) ==
    LET route == Route(req'[r].entry, req'[r].language)
        path == ScratchOf(route, r)
    IN (/\ pc'[r] # "idle"
        /\ route \in {"cpp", "java", "js"}
        /\ ProbedTool(route) \notin env'[r]) =>
           /\ toolRuns'[r] = <<>>
           /\ route = "java" => ~fs'[path].exists
           /\ (/\ route \in {"cpp", "js"}
               /\ pc[r] = "idle"
               /\ always \/ route = "js" \/ ~IsBlankOf[req'[r].code]) =>
                  fs'[path] = File(r, req'[r].code, route = "cpp" /\ ~HasIncludesOf[req'[r].code])
           /\ (route \in {"cpp", "js"} /\ pc'[r] \in {"returned", "raised"}) =>
                  ~fs'[path].exists

\* C30 as stated: a call whose availability probe is negative runs the tool
\* never; the Java adapter then writes no scratch file, the C-family and JS
\* adapters write theirs and have removed it when they return
C30_ProbeNegative == [][\A r \in Reqs : ProbeNegativeStep(r, TRUE)]_vars

\* C30: a call whose availability probe is negative runs the tool never; the
\* Java adapter then writes no scratch file; the JS adapter, and the C-family
\* adapter for a source that is not blank, write theirs and have removed it
\* when they return
C30_ProbeNegativeNotBlank == [][\A r \in Reqs : ProbeNegativeStep(r, FALSE)]_vars

\* a C-family call without clang-tidy after _run_clang_tidy_analysis: no run
\* of the tool, the scratch file still there
C30_Witness ==
    \E r \in Reqs :
        /\ pc[r] = "cpp_finish"
        /\ RouteOf(r) = "cpp"
        /\ "clang-tidy" \notin env[r]
        /\ toolRuns[r] = <<>>
        /\ fs[CppTempPath].exists
        /\ fs[CppTempPath].writer = r

====
